---- MODULE Spec2Model ----
(***************************************************************************)
(* Training pipeline of the XGBoost web API (python_api).                  *)
(*                                                                         *)
(* One training request is followed from POST /api/train through the       *)
(* background task run_training_task, the orchestrator                     *)
(* run_xgboost_training_flow and its three phase functions, down to the    *)
(* project document kept in MongoDB.  Every collaborator call (status      *)
(* sink, dataset source, result store, xgboost) is one step; a call that   *)
(* can raise in the code is a nondeterministic choice between its normal   *)
(* effect and the exception.                                               *)
(*                                                                         *)
(* Dictionaries are sequences of <<key, value>> pairs (Python dicts keep   *)
(* insertion order).  Floating point parameter values and scores are       *)
(* integers in hundredths (0.5 is 50); objectives are indices into         *)
(* Objectives.                                                             *)
(***************************************************************************)
EXTENDS Integers, Sequences, FiniteSets, TLC

\* ------------------------------------------------------------------ bounds
MaxKeys == 2        \* keys in a requested parameter grid
MaxVals == 2        \* values listed for one key of a requested grid
ScoreSteps == 1     \* cross-validation mean scores range over 0.50 .. 0.50 + ScoreSteps/100
MaxStd == 1         \* cross-validation score deviations go up to MaxStd (hundredths)
MaxRounds == 2      \* early stopping leaves up to MaxRounds rounds
MaxRows == 2        \* rows of a dataset
MaxSplitRows == 4   \* rows of a dataset handed to split_train_test
MaxFeatures == 2    \* feature names handed to extract_feature_importance
MaxTestRows == 3    \* rows of a held-out set handed to compute_lift_chart_data
MaxGridKeys == 2    \* keys of a grid handed to validate_param_grid
MaxListed == 2      \* values listed for one key of such a grid
MaxCallers == 3     \* threads calling MongoConnection.get_client at the same time
MaxEmitters == 2    \* threads calling JSONFileHandler.emit at the same time

\* --------------------------------------------------------- dict operations
\* the elements of a list
Range(s) == {s[i] : i \in 1..Len(s)}

DictKeys(d) == {d[i][1] : i \in 1..Len(d)}

DictHas(d, k) == k \in DictKeys(d)

\* d[k] = v : an existing key keeps its position, a new key is appended
DictSet(d, k, v) ==
    IF DictHas(d, k)
    THEN [i \in 1..Len(d) |-> IF d[i][1] = k THEN <<k, v>> ELSE d[i]]
    ELSE Append(d, <<k, v>>)

\* d.update(e)
RECURSIVE DictUpdate(_, _)
DictUpdate(d, e) ==
    IF e = <<>> THEN d
    ELSE DictUpdate(DictSet(d, e[1][1], e[1][2]), Tail(e))

\* d.get(k, default)
DictGet(d, k, default) ==
    IF DictHas(d, k) THEN d[CHOOSE i \in 1..Len(d) : d[i][1] = k][2] ELSE default

\* --------------------------------------------------------------- xgb_params
Objectives == <<"binary:logistic", "binary:logitraw", "binary:hinge">>

TUNABLE_PARAMS ==
    {"learning_rate", "eta", "alpha", "reg_alpha", "lambda", "reg_lambda",
     "max_depth", "min_child_weight", "subsample", "colsample_bytree"}

DEFAULT_PARAM_GRID ==
    << <<"max_depth", <<3, 4, 5>> >>,
       <<"learning_rate", <<1, 10>> >>,
       <<"lambda", <<0, 50, 100>> >>,
       <<"subsample", <<80>> >>,
       <<"colsample_bytree", <<80>> >> >>

\* Python values a grid can list: numbers are kept in hundredths
PyInt(n) == [type |-> "int", v |-> 100 * n, s |-> ""]

PyFloat(hundredths) == [type |-> "float", v |-> hundredths, s |-> ""]

PyStr(s) == [type |-> "str", v |-> 0, s |-> s]

\* the entries of VALID_XGBOOST_PARAMS the grids of this model can name: the type, the
\* range ([min, max] a list, (min, max) a tuple, bounds in hundredths, max = inf when
\* unbounded), the listed values and the aliases
ParamInfo(type, range, min, max_is_inf, max, values, alias) ==
    [type |-> type, range |-> range, min |-> min, max_is_inf |-> max_is_inf, max |-> max,
     values |-> values, alias |-> alias]

VALID_XGBOOST_PARAMS ==
    [name \in {"eta", "learning_rate", "gamma", "max_depth", "min_child_weight",
               "subsample", "colsample_bytree", "lambda", "reg_lambda", "alpha",
               "reg_alpha", "objective"} |->
        CASE name = "eta" -> ParamInfo("float", "tuple", 0, FALSE, 100, {}, {"learning_rate"})
          [] name = "learning_rate" -> ParamInfo("float", "tuple", 0, FALSE, 100, {}, {"eta"})
          [] name = "gamma" -> ParamInfo("float", "list", 0, TRUE, 0, {}, {})
          [] name = "max_depth" -> ParamInfo("int", "list", 0, TRUE, 0, {}, {})
          [] name = "min_child_weight" -> ParamInfo("float", "list", 0, TRUE, 0, {}, {})
          [] name = "subsample" -> ParamInfo("float", "tuple", 0, FALSE, 100, {}, {})
          [] name = "colsample_bytree" -> ParamInfo("float", "tuple", 0, FALSE, 100, {}, {})
          [] name = "lambda" -> ParamInfo("float", "list", 0, TRUE, 0, {}, {"reg_lambda"})
          [] name = "reg_lambda" -> ParamInfo("float", "list", 0, TRUE, 0, {}, {"lambda"})
          [] name = "alpha" -> ParamInfo("float", "list", 0, TRUE, 0, {}, {"reg_alpha"})
          [] name = "reg_alpha" -> ParamInfo("float", "list", 0, TRUE, 0, {}, {"alpha"})
          [] name = "objective" ->
                ParamInfo("str", "none", 0, TRUE, 0,
                          {"binary:logistic", "binary:logitraw", "binary:hinge",
                           "multi:softmax", "multi:softprob", "reg:linear", "reg:logistic",
                           "reg:gamma", "reg:tweedie"}, {})]

\* validate_param_name(param_name)
validate_param_name(param_name) ==
    \/ param_name \in DOMAIN VALID_XGBOOST_PARAMS
    \/ \E param \in DOMAIN VALID_XGBOOST_PARAMS : param_name \in VALID_XGBOOST_PARAMS[param].alias

\* an error message: what is wrong, with which parameter and which value
ParamError(kind, param_name, value) == [kind |-> kind, param_name |-> param_name, value |-> value]

NoValue == [type |-> "", v |-> 0, s |-> ""]

\* the empty error message
NoParamError == ParamError("", "", NoValue)

\* validate_param_value(param_name, value): the error message, empty when valid
validate_param_value(param_name, value) ==
    IF ~validate_param_name(param_name)
    THEN ParamError("is not a valid XGBoost parameter", param_name, NoValue)
    ELSE
    LET param_info ==
            IF param_name \in DOMAIN VALID_XGBOOST_PARAMS
            THEN VALID_XGBOOST_PARAMS[param_name]
            ELSE VALID_XGBOOST_PARAMS[CHOOSE param \in DOMAIN VALID_XGBOOST_PARAMS :
                                        param_name \in VALID_XGBOOST_PARAMS[param].alias]
        isinstance == IF param_info.type = "float" THEN value.type \in {"int", "float"}
                      ELSE value.type = param_info.type
        above_max == (~param_info.max_is_inf) /\ value.v > param_info.max
    IN  IF ~isinstance
        THEN ParamError("must be of type", param_name, value)
        ELSE IF param_info.values # {} /\ value.s \notin param_info.values
        THEN ParamError("must be one of", param_name, value)
        ELSE IF param_info.range = "list" /\ (value.v < param_info.min \/ above_max)
        THEN ParamError("must be >= min and <= max", param_name, value)
        ELSE IF param_info.range = "tuple" /\ (value.v <= param_info.min \/ above_max)
        THEN ParamError("must be > min and <= max", param_name, value)
        ELSE NoParamError

\* the tunable-parameter test of validate_param_grid
is_tunable(param_name) ==
    \/ param_name \in TUNABLE_PARAMS
    \/ \E tunable_param \in TUNABLE_PARAMS \cap DOMAIN VALID_XGBOOST_PARAMS :
        param_name \in VALID_XGBOOST_PARAMS[tunable_param].alias

\* the errors of one key of the grid; values is [is_list, items]
key_errors(param_name, values) ==
    IF ~is_tunable(param_name)
    THEN <<ParamError("is not a tunable parameter", param_name, NoValue)>>
    ELSE IF ~values.is_list
    THEN <<ParamError("values must be a list", param_name, NoValue)>>
    ELSE IF Len(values.items) = 0
    THEN <<ParamError("values list cannot be empty", param_name, NoValue)>>
    ELSE LET Wrong(value) == validate_param_value(param_name, value) # NoParamError
             wrong == SelectSeq(values.items, Wrong)
         IN  [i \in 1..Len(wrong) |-> validate_param_value(param_name, wrong[i])]

RECURSIVE grid_errors(_)
grid_errors(param_grid) ==
    IF param_grid = <<>> THEN <<>>
    ELSE key_errors(param_grid[1][1], param_grid[1][2]) \o grid_errors(Tail(param_grid))

\* a validation that returns at the first error
validate_param_grid_first_error(param_grid) ==
    LET all == grid_errors(param_grid)
        errors == IF all = <<>> THEN <<>> ELSE <<Head(all)>>
    IN  [is_valid |-> Len(errors) = 0, errors |-> errors]

\* validate_param_grid(param_grid)
validate_param_grid(param_grid) ==
    LET errors == grid_errors(param_grid)
    IN  [is_valid |-> Len(errors) = 0, errors |-> errors]

\* DEFAULT_PARAM_GRID with the Python types of its literals
TypedDefaultGrid ==
    [i \in 1..Len(DEFAULT_PARAM_GRID) |->
        LET name == DEFAULT_PARAM_GRID[i][1]
            listed == DEFAULT_PARAM_GRID[i][2]
        IN  <<name,
              [is_list |-> TRUE,
               items |-> [j \in 1..Len(listed) |->
                    IF name = "max_depth" THEN PyInt(listed[j])
                    ELSE IF name = "lambda" /\ listed[j] = 0 THEN PyInt(0)
                    ELSE PyFloat(listed[j])]]>>]

\* ------------------------------------------------------------------ models
\* The fields pydantic validates when a TrainRequest is built.
TrainRequestValid(req) ==
    /\ req.feature_columns >= 1
    /\ req.test_size > 0
    /\ req.test_size < 100

\* The declared fields of TrainingResult; pydantic ignores any other keyword.
TrainingResultFields == {"model", "best_params", "cv_auc", "best_n_estimators"}

\* TrainingResult(**kwargs)
TrainingResult(kwargs) ==
    [f \in (DOMAIN kwargs) \cap TrainingResultFields |-> kwargs[f]]

\* ---------------------------------------------------------- modeling_utils
\* itertools.product(*lists): the right-most list varies fastest
RECURSIVE product(_)
product(lists) ==
    IF lists = <<>> THEN << <<>> >>
    ELSE LET h == Head(lists)
             rest == product(Tail(lists))
             n == Len(rest)
         IN  [j \in 1..(Len(h) * n) |->
                 <<h[((j - 1) \div n) + 1]>> \o rest[((j - 1) % n) + 1]]

\* build_param_grid with zip in place of product: the lists paired position by position
build_param_grid_zip(base_grid) ==
    LET n == IF base_grid = <<>> THEN 1
             ELSE CHOOSE m \in 0..Len(base_grid[1][2]) :
                    /\ \A i \in 1..Len(base_grid) : m <= Len(base_grid[i][2])
                    /\ \E i \in 1..Len(base_grid) : m = Len(base_grid[i][2])
    IN  [j \in 1..n |->
            [i \in 1..Len(base_grid) |-> <<base_grid[i][1], base_grid[i][2][j]>>]]

\* build_param_grid enumerating with the left-most key varying fastest
build_param_grid_left_fastest(base_grid) ==
    LET n == Len(base_grid)
        reversed == [i \in 1..n |-> base_grid[n + 1 - i][2]]
        combos == product(reversed)
    IN  [j \in 1..Len(combos) |->
            [i \in 1..n |-> <<base_grid[i][1], combos[j][n + 1 - i]>>]]

\* build_param_grid(base_grid): one dict per element of the product
build_param_grid(base_grid) ==
    LET param_names == [i \in 1..Len(base_grid) |-> base_grid[i][1]]
        param_values == [i \in 1..Len(base_grid) |-> base_grid[i][2]]
        combos == product(param_values)
    IN  [j \in 1..Len(combos) |->
            [i \in 1..Len(param_names) |-> <<param_names[i], combos[j][i]>>]]

\* run_cross_validation: what xgb.cv can hand back.  "rows" is a non-empty
\* result frame (last row's mean and std, its length as the round count),
\* "empty" the fallback branch, "raise" an exception out of xgb.cv.
\* The mean is compared, so every step of it is drawn; the deviation and the
\* round count are only carried along, so their least and greatest values are.
CvDefaultMean == 50
CvNumRounds == 500

CvOutcomes ==
    {[kind |-> "raise", mean |-> 0, std |-> 0, rounds |-> 0]}
    \cup {[kind |-> "empty", mean |-> CvDefaultMean, std |-> 0, rounds |-> CvNumRounds]}
    \cup [kind : {"rows"},
          mean : CvDefaultMean..(CvDefaultMean + ScoreSteps),
          std : {0, MaxStd},
          rounds : {1, MaxRounds}]

\* the loop body catching what xgb.cv raises and going on with the next candidate
skips_failed_candidate(cv) == FALSE

\* run_cross_validation is called outside any try: what xgb.cv raises leaves
\* execute_hyperparameter_search
leaves_search(cv) == cv.kind = "raise"

\* execute_hyperparameter_search: the running best before the first candidate
NegInf == -1
InitialNEstimators == 100

InitialBest ==
    [score |-> NegInf, std |-> 0, params |-> <<>>, n_estimators |-> InitialNEstimators]

\* the loop body replacing the running best on an equal score as well
UpdateBest_on_tie(best, params, cv) ==
    IF cv.mean >= best.score
    THEN [score |-> cv.mean, std |-> cv.std, params |-> params, n_estimators |-> cv.rounds]
    ELSE best

\* one pass of the loop body on the running best
UpdateBest(best, params, cv) ==
    IF cv.mean > best.score
    THEN [score |-> cv.mean, std |-> cv.std, params |-> params, n_estimators |-> cv.rounds]
    ELSE best

ProgressEvery == 5

\* the progress line written before the candidate's score is compared
log_progress_stale(progress, done, total, before, after) ==
    IF done % ProgressEvery = 0
    THEN Append(progress, [done |-> done, total |-> total, best_score |-> before.score])
    ELSE progress

\* the end of the loop body: the progress line after every fifth candidate, given
\* the running best before and after the candidate
log_progress(progress, done, total, before, after) ==
    IF done % ProgressEvery = 0
    THEN Append(progress, [done |-> done, total |-> total, best_score |-> after.score])
    ELSE progress

\* ceil(a / b) for naturals
Ceil(a, b) == (a + b - 1) \div b

\* a DataFrame or Series with a RangeIndex: its rows, each with its index label
Frame(values) == [i \in 1..Len(values) |-> [index |-> i - 1, value |-> values[i]]]

\* frame.iloc[positions]
iloc(frame, positions) == [k \in 1..Len(positions) |-> frame[positions[k]]]

RECURSIVE SumOver(_, _)
SumOver(f, S) ==
    IF S = {} THEN 0
    ELSE LET c == CHOOSE x \in S : TRUE IN f[c] + SumOver(f, S \ {c})

\* _approximate_mode(class_counts, n_draws, rng): how many rows each class gives, at
\* most its count and n_draws in all (every such allocation; the proportions and the
\* random tie-breaks are left open)
approximate_mode(class_counts, n_draws) ==
    {a \in [DOMAIN class_counts -> 0..n_draws] :
        /\ \A c \in DOMAIN class_counts : a[c] <= class_counts[c]
        /\ SumOver(a, DOMAIN class_counts) = n_draws}

\* one iteration of StratifiedShuffleSplit._iter_indices: in the shuffled order perm
\* the first n_i rows of each class go to train and its next t_i rows to test
iter_indices(y, perm, n_i, t_i) ==
    LET rank(k) == Cardinality({j \in 1..k : y[perm[j]].value = y[perm[k]].value})
        ToTrain(k) == rank(k) <= n_i[y[perm[k]].value]
        ToTest(k) == /\ rank(k) > n_i[y[perm[k]].value]
                     /\ rank(k) <= n_i[y[perm[k]].value] + t_i[y[perm[k]].value]
        train == SelectSeq([k \in 1..Len(y) |-> k], ToTrain)
        test == SelectSeq([k \in 1..Len(y) |-> k], ToTest)
    IN  <<[k \in 1..Len(train) |-> perm[train[k]]], [k \in 1..Len(test) |-> perm[test[k]]]>>

\* StratifiedShuffleSplit(test_size=n_test, train_size=n_train).split(X, y): every
\* outcome of the seeded rng
StratifiedShuffleSplit(y, n_train, n_test) ==
    LET n == Len(y)
        classes == {y[i].value : i \in 1..n}
        class_counts == [c \in classes |-> Cardinality({i \in 1..n : y[i].value = c})]
    IN  UNION {UNION {
            {iter_indices(y, perm, n_i, t_i) :
                t_i \in approximate_mode([c \in classes |-> class_counts[c] - n_i[c]],
                                         n_test)} :
            n_i \in approximate_mode(class_counts, n_train)} :
        perm \in Permutations(1..n)}

SplitError(error) ==
    [error |-> error, X_train |-> <<>>, X_test |-> <<>>, y_train |-> <<>>, y_test |-> <<>>]

\* train_test_split(X, y, test_size=test_size, random_state=..., stratify=y), with
\* test_size in hundredths: the outcomes it can have
train_test_split(X, y, test_size) ==
    LET n == Len(X)
        n_test == Ceil(test_size * n, 100)
        n_train == n - n_test
        classes == {y[i].value : i \in 1..n}
    IN  IF n = 0 \/ n_train = 0
        THEN {SplitError("ValueError: the resulting train set will be empty")}
        ELSE IF \E c \in classes : Cardinality({i \in 1..n : y[i].value = c}) < 2
        THEN {SplitError("ValueError: The least populated class in y has only 1 member")}
        ELSE IF n_train < Cardinality(classes) \/ n_test < Cardinality(classes)
        THEN {SplitError("ValueError: should be greater or equal to the number of classes")}
        ELSE {[error |-> "",
               X_train |-> iloc(X, split[1]), X_test |-> iloc(X, split[2]),
               y_train |-> iloc(y, split[1]), y_test |-> iloc(y, split[2])] :
                split \in StratifiedShuffleSplit(y, n_train, n_test)}

\* a split that shuffles the features and the target separately
split_apart(X, y, test_size) ==
    {[error |-> a.error,
      X_train |-> a.X_train, X_test |-> a.X_test,
      y_train |-> b.y_train, y_test |-> b.y_test] :
        a \in train_test_split(X, y, test_size), b \in train_test_split(X, y, test_size)}

\* split_train_test(X, y, test_size)
split(X, y, test_size) == train_test_split(X, y, test_size)

\* the importance types get_score is asked for, in the order of the code
ImportanceTypes == <<"gain", "weight", "cover">>

\* model.get_score(importance_type=...) for the first k types with a non-empty
\* answer, or all of them: the types asked and the dict used
RECURSIVE get_scores(_, _)
get_scores(model, types) ==
    IF Len(types) = 1 \/ model[Head(types)] # <<>>
    THEN [asked |-> <<Head(types)>>, importance_dict |-> model[Head(types)]]
    ELSE LET rest == get_scores(model, Tail(types))
         IN  [asked |-> <<Head(types)>> \o rest.asked,
              importance_dict |-> rest.importance_dict]

\* feature_names.index(feature), counted from 0
list_index(feature_names, feature) ==
    (CHOOSE i \in 1..Len(feature_names) :
        feature_names[i] = feature /\ \A j \in 1..(i - 1) : feature_names[j] # feature) - 1

\* f"f{feature_index}"
PositionalKey(feature_index) == "f" \o ToString(feature_index)

\* the importance of one feature: its own entry, or when that is absent or 0.0 the
\* entry of its positional key
importance_value(importance_dict, feature_names, feature) ==
    LET importance_value_by_name == DictGet(importance_dict, feature, 0)
    IN  IF importance_value_by_name = 0
        THEN DictGet(importance_dict, PositionalKey(list_index(feature_names, feature)), 0)
        ELSE importance_value_by_name

RECURSIVE feature_importance_of(_, _, _)
feature_importance_of(importance_dict, feature_names, k) ==
    IF k = 0 THEN <<>>
    ELSE DictSet(feature_importance_of(importance_dict, feature_names, k - 1),
                 feature_names[k],
                 importance_value(importance_dict, feature_names, feature_names[k]))

\* the same with the fallbacks asked in the order gain, cover, weight
extract_feature_importance_cover_first(model, feature_names) ==
    LET scores == get_scores(model, <<"gain", "cover", "weight">>)
    IN  [asked |-> scores.asked,
         feature_importance |->
            feature_importance_of(scores.importance_dict, feature_names, Len(feature_names))]

\* extract_feature_importance(model, feature_names): the dict it returns and the
\* importance types it asked the model for
extract_feature_importance(model, feature_names) ==
    LET scores == get_scores(model, ImportanceTypes)
    IN  [asked |-> scores.asked,
         feature_importance |->
            feature_importance_of(scores.importance_dict, feature_names, Len(feature_names))]

\* the values of a list in ascending order (ties kept)
RECURSIVE sort_values(_)
sort_values(xs) ==
    IF xs = <<>> THEN <<>>
    ELSE LET m == CHOOSE i \in 1..Len(xs) : \A j \in 1..Len(xs) : xs[i] <= xs[j]
         IN  <<xs[m]>> \o sort_values([k \in 1..(Len(xs) - 1) |->
                                          IF k < m THEN xs[k] ELSE xs[k + 1]])

\* Series.quantile(k / q) with linear interpolation, times q to stay in integers
quantile(xs, k, q) ==
    LET sorted == sort_values(xs)
        h == (Len(xs) - 1) * k
        lo == (h \div q) + 1
        hi == IF lo < Len(xs) THEN lo + 1 ELSE lo
    IN  sorted[lo] * q + (h % q) * (sorted[hi] - sorted[lo])

\* algos.unique on the ascending bin edges
RECURSIVE unique(_)
unique(edges) ==
    IF Len(edges) <= 1 THEN edges
    ELSE LET init == unique(SubSeq(edges, 1, Len(edges) - 1))
         IN  IF init[Len(init)] = edges[Len(edges)] THEN init
             ELSE Append(init, edges[Len(edges)])

NaN == -1

\* pd.qcut(xs, q, labels=False, duplicates="drop"): the bin number of every value, NaN
\* for a value that falls in no bin
qcut(xs, q) ==
    LET quantiles == [k \in 1..(q + 1) |-> quantile(xs, k - 1, q)]
        bins == IF Len(unique(quantiles)) < Len(quantiles) /\ Len(quantiles) # 2
                THEN unique(quantiles) ELSE quantiles
        searchsorted(x) == Cardinality({i \in 1..Len(bins) : bins[i] < x * q})
        ids(x) == IF x * q = bins[1] THEN 1 ELSE searchsorted(x)
    IN  [r \in 1..Len(xs) |->
            IF ids(xs[r]) = Len(bins) \/ ids(xs[r]) = 0 THEN NaN ELSE ids(xs[r]) - 1]

RECURSIVE SumOf(_, _)
SumOf(xs, rows) ==
    IF rows = {} THEN 0
    ELSE LET r == CHOOSE x \in rows : TRUE IN xs[r] + SumOf(xs, rows \ {r})

\* the loop of compute_lift_chart_data over bin_num = from .. n_bins - 1; a mean is
\* kept as the pair <<sum, count>>
RECURSIVE lift_bins(_, _, _, _, _)
lift_bins(y_true, y_pred_proba, bin, from, n_bins) ==
    IF from >= n_bins THEN <<>>
    ELSE LET bin_data == {r \in 1..Len(bin) : bin[r] = from}
             rest == lift_bins(y_true, y_pred_proba, bin, from + 1, n_bins)
         IN  IF Cardinality(bin_data) > 0
             THEN <<[bin |-> from + 1,
                     avg_prediction |-> <<SumOf(y_pred_proba, bin_data), Cardinality(bin_data)>>,
                     actual_rate |-> <<SumOf(y_true, bin_data), Cardinality(bin_data)>>,
                     count |-> Cardinality(bin_data)]>> \o rest
             ELSE rest

\* compute_lift_chart_data(y_true, y_pred_proba, n_bins), predictions in hundredths
compute_lift_chart_data(y_true, y_pred_proba, n_bins) ==
    lift_bins(y_true, y_pred_proba, qcut(y_pred_proba, n_bins), 0, n_bins)

\* ----------------------------------------------------------- preprocessing
\* A cell of a DataFrame: a number, a string, a timestamp (its day number), a
\* boolean, or no value (NaN, None, NaT).
Num(n) == [kind |-> "num", n |-> n, s |-> ""]

Str(s) == [kind |-> "str", n |-> 0, s |-> s]

Timestamp(d) == [kind |-> "date", n |-> d, s |-> ""]

Bool(b) == [kind |-> "bool", n |-> IF b THEN 1 ELSE 0, s |-> ""]

NA == [kind |-> "na", n |-> 0, s |-> ""]

isnull(cell) == cell.kind = "na"

\* the dtypes select_dtypes matches for np.number and for the datetime names
NumberDTypes == {"int64", "float64"}

DatetimeDTypes == {"datetime64[ns]"}

\* the strings the datasets hold, in the order Python compares them
StringOrder ==
    <<"2024-01-01", "2024-01-02", "A", "B", "NaT", "a", "missing", "z">>

StringRank(s) == CHOOSE i \in 1..Len(StringOrder) : StringOrder[i] = s

\* str(Timestamp) for the days the datasets hold
DateString(d) == IF d = 1 THEN "2024-01-01" ELSE "2024-01-02"

\* Series.astype(str)
astype_str(cell) ==
    CASE cell.kind = "str" -> cell
      [] cell.kind = "date" -> Str(DateString(cell.n))
      [] cell.kind = "na" -> Str("NaT")
      [] OTHER -> cell

\* X.select_dtypes(include=...).columns.tolist()
select_dtypes(X, include) ==
    LET Match(col) == col.dtype \in include
        cols == SelectSeq(X, Match)
    IN  [i \in 1..Len(cols) |-> cols[i].name]

\* the column of X called name
Column(X, name) == X[CHOOSE i \in 1..Len(X) : X[i].name = name]

ColumnNamesOf(X) == {X[i].name : i \in 1..Len(X)}

\* DatetimeToString.transform, and the same loop in _detect_column_types
DatetimeToString(X) ==
    [i \in 1..Len(X) |->
        IF X[i].dtype \in DatetimeDTypes
        THEN [name |-> X[i].name, dtype |-> "object",
              cells |-> [r \in 1..Len(X[i].cells) |-> astype_str(X[i].cells[r])]]
        ELSE X[i]]

detect_column_types(X) ==
    LET datetime_columns == select_dtypes(X, DatetimeDTypes)
        X_for_types == DatetimeToString(X)
        numeric_columns == select_dtypes(X_for_types, NumberDTypes)
        categorical_columns == select_dtypes(X_for_types, {"object"})
    IN  [numeric_columns |-> numeric_columns,
         categorical_columns |-> categorical_columns,
         datetime_columns |-> datetime_columns,
         all_columns |-> numeric_columns \o categorical_columns]

\* SimpleImputer(strategy="constant", fill_value=...): fit_transform and transform
NumericFill == -9999

CategoricalFill == "missing"

SimpleImputer(cells, fill_value) ==
    [r \in 1..Len(cells) |-> IF isnull(cells[r]) THEN fill_value ELSE cells[r]]

\* the distinct strings of a column in the order of their first row
RECURSIVE first_seen_unique(_)
first_seen_unique(cells) ==
    IF cells = <<>> THEN <<>>
    ELSE LET init == first_seen_unique(SubSeq(cells, 1, Len(cells) - 1))
             last == cells[Len(cells)].s
         IN  IF \E i \in 1..Len(init) : init[i] = last THEN init ELSE Append(init, last)

\* OrdinalEncoder.fit on one column: categories_[i] is the sorted distinct values
\* (max_categories=1000 groups nothing while a column has at most 1000 of them)
sorted_unique(cells) ==
    LET Present(s) == \E r \in 1..Len(cells) : cells[r].s = s
    IN  SelectSeq(StringOrder, Present)

\* OrdinalEncoder.transform on one column with handle_unknown="use_encoded_value"
UnknownValue == -1

\* an encoder that gives a value it was not fitted on the next free code
OrdinalEncoder_next_code(categories, cells) ==
    [r \in 1..Len(cells) |->
        IF \E i \in 1..Len(categories) : categories[i] = cells[r].s
        THEN Num((CHOOSE i \in 1..Len(categories) : categories[i] = cells[r].s) - 1)
        ELSE Num(Len(categories))]

OrdinalEncoder(categories, cells) ==
    [r \in 1..Len(cells) |->
        IF \E i \in 1..Len(categories) : categories[i] = cells[r].s
        THEN Num((CHOOSE i \in 1..Len(categories) : categories[i] = cells[r].s) - 1)
        ELSE Num(UnknownValue)]

\* _create_transformers: the "num" and "cat" entries of the ColumnTransformer
create_transformers(numeric_columns, categorical_columns) ==
    (IF numeric_columns # <<>>
     THEN <<[name |-> "num", columns |-> numeric_columns]>> ELSE <<>>)
    \o (IF categorical_columns # <<>>
        THEN <<[name |-> "cat", columns |-> categorical_columns]>> ELSE <<>>)

\* the columns a list of transformers is given
TransformerColumns(transformers, name) ==
    LET Named(t) == t.name = name
        found == SelectSeq(transformers, Named)
    IN  IF found = <<>> THEN <<>> ELSE found[1].columns

NoPipeline == [fitted |-> FALSE, transformers |-> <<>>, categories |-> <<>>, remainder |-> <<>>]

\* Pipeline.fit: the categories of every "cat" column after the datetime step and
\* the imputer, and the columns left to remainder="passthrough"
fit(transformers, X) ==
    LET Xs == DatetimeToString(X)
        cat == TransformerColumns(transformers, "cat")
        num == TransformerColumns(transformers, "num")
        Rest(col) == \A i \in 1..Len(num \o cat) : (num \o cat)[i] # col.name
        rest == SelectSeq(Xs, Rest)
    IN  [fitted |-> TRUE,
         transformers |-> transformers,
         categories |->
            [i \in 1..Len(cat) |->
                sorted_unique(SimpleImputer(Column(Xs, cat[i]).cells, Str(CategoricalFill)))],
         remainder |-> [i \in 1..Len(rest) |-> rest[i].name]]

\* Pipeline.transform: the output matrix, one sequence of cells per output column:
\* the "num" columns, the "cat" columns, then the passed-through remainder
transform(pipeline, X) ==
    LET Xs == DatetimeToString(X)
        cat == TransformerColumns(pipeline.transformers, "cat")
        num == TransformerColumns(pipeline.transformers, "num")
    IN  [i \in 1..Len(num) |-> SimpleImputer(Column(Xs, num[i]).cells, Num(NumericFill))]
        \o [i \in 1..Len(cat) |->
                OrdinalEncoder(pipeline.categories[i],
                               SimpleImputer(Column(Xs, cat[i]).cells, Str(CategoricalFill)))]
        \o [i \in 1..Len(pipeline.remainder) |-> Column(Xs, pipeline.remainder[i]).cells]

\* LabelEncoder().fit_transform(y): classes_ and the index of every label in it
LabelEncoder(cells) ==
    LET classes == sorted_unique(cells)
    IN  [classes |-> classes,
         y |-> [r \in 1..Len(cells) |->
                  Num((CHOOSE i \in 1..Len(classes) : classes[i] = cells[r].s) - 1)]]

\* target_encoder is None, or a fitted LabelEncoder with these classes_
NoTargetEncoder == [is_none |-> TRUE, classes |-> <<>>]

NoColumn == [name |-> "", dtype |-> "", cells |-> <<>>]

\* the target encoded by its position in the list of labels in first-row order
process_target_variable_first_seen(y) ==
    LET classes == first_seen_unique(y.cells)
    IN  IF \E r \in 1..Len(y.cells) : isnull(y.cells[r])
        THEN [error |-> "ValueError: Target column contains missing values",
              y |-> NoColumn, target_encoder |-> NoTargetEncoder]
        ELSE IF y.dtype = "object"
        THEN [error |-> "",
              y |-> [name |-> y.name, dtype |-> "int64",
                     cells |-> [r \in 1..Len(y.cells) |->
                        Num((CHOOSE i \in 1..Len(classes) : classes[i] = y.cells[r].s) - 1)]],
              target_encoder |-> [is_none |-> FALSE, classes |-> classes]]
        ELSE [error |-> "", y |-> y, target_encoder |-> NoTargetEncoder]

\* _process_target_variable(y)
process_target_variable(y) ==
    IF \E r \in 1..Len(y.cells) : isnull(y.cells[r])
    THEN [error |-> "ValueError: Target column contains missing values",
          y |-> NoColumn, target_encoder |-> NoTargetEncoder]
    ELSE IF y.dtype = "object"
    THEN LET target_encoder == LabelEncoder(y.cells)
         IN  [error |-> "",
              y |-> [name |-> y.name, dtype |-> "int64", cells |-> target_encoder.y],
              target_encoder |-> [is_none |-> FALSE, classes |-> target_encoder.classes]]
    ELSE [error |-> "", y |-> y, target_encoder |-> NoTargetEncoder]

\* _extract_column_info_from_fitted_pipeline
extract_column_info_from_fitted_pipeline(pipeline) ==
    LET numeric_columns == TransformerColumns(pipeline.transformers, "num")
        categorical_columns == TransformerColumns(pipeline.transformers, "cat")
    IN  [numeric_columns |-> numeric_columns,
         categorical_columns |-> categorical_columns,
         datetime_columns |-> <<>>,
         all_columns |-> numeric_columns \o categorical_columns]

NoColumnInfo ==
    [numeric_columns |-> <<>>, categorical_columns |-> <<>>, datetime_columns |-> <<>>,
     all_columns |-> <<>>]

\* _build_preprocessing_info (the generated pipeline code is left out)
build_preprocessing_info(column_info, target_encoder) ==
    [column_info |-> column_info,
     target_encoder_classes |-> target_encoder,
     feature_names |-> column_info.all_columns]

NoPreprocessingInfo == build_preprocessing_info(NoColumnInfo, NoTargetEncoder)

\* what a raising preprocess_data leaves its caller with
PreprocessError(error, pipeline) ==
    [error |-> error, X |-> <<>>, y |-> NoColumn, pipeline |-> pipeline,
     preprocessing_info |-> NoPreprocessingInfo]

\* preprocess_data transforming the features before it looks at the target
preprocess_features_first(df, feature_columns, target_column, pipeline) ==
    IF ~(({feature_columns[i] : i \in 1..Len(feature_columns)} \cup {target_column})
            \subseteq ColumnNamesOf(df))
    THEN PreprocessError("KeyError", pipeline)
    ELSE
    LET X == [i \in 1..Len(feature_columns) |-> Column(df, feature_columns[i])]
        target == process_target_variable(Column(df, target_column))
        fitted == IF pipeline = NoPipeline
                  THEN LET types == detect_column_types(X)
                       IN  fit(create_transformers(types.numeric_columns,
                                                   types.categorical_columns), X)
                  ELSE pipeline
        column_info == IF pipeline = NoPipeline
                       THEN detect_column_types(X)
                       ELSE extract_column_info_from_fitted_pipeline(pipeline)
        X_processed == transform(fitted, X)
    IN  IF Len(X_processed) # Len(column_info.all_columns)
        THEN PreprocessError("ValueError: Shape of passed values", fitted)
        ELSE IF target.error # "" THEN PreprocessError(target.error, fitted)
        ELSE [error |-> "",
              X |-> [i \in 1..Len(X_processed) |->
                        [name |-> column_info.all_columns[i], dtype |-> "float32",
                         cells |-> X_processed[i]]],
              y |-> target.y,
              pipeline |-> fitted,
              preprocessing_info |->
                  build_preprocessing_info(column_info, target.target_encoder)]

\* preprocess_data(df, feature_columns, target_column, pipeline): the four values
\* it returns, or the exception it raises
preprocess(df, feature_columns, target_column, pipeline) ==
    IF ~(({feature_columns[i] : i \in 1..Len(feature_columns)} \cup {target_column})
            \subseteq ColumnNamesOf(df))
    THEN PreprocessError("KeyError", pipeline)
    ELSE
    LET X == [i \in 1..Len(feature_columns) |-> Column(df, feature_columns[i])]
        target == process_target_variable(Column(df, target_column))
    IN  IF target.error # "" THEN PreprocessError(target.error, pipeline)
        ELSE
        LET fitted == IF pipeline = NoPipeline
                      THEN LET types == detect_column_types(X)
                           IN  fit(create_transformers(types.numeric_columns,
                                                       types.categorical_columns), X)
                      ELSE pipeline
            column_info == IF pipeline = NoPipeline
                           THEN detect_column_types(X)
                           ELSE extract_column_info_from_fitted_pipeline(pipeline)
            X_processed == transform(fitted, X)
        IN  IF Len(X_processed) # Len(column_info.all_columns)
            THEN PreprocessError("ValueError: Shape of passed values", fitted)
            ELSE [error |-> "",
                  X |-> [i \in 1..Len(X_processed) |->
                            [name |-> column_info.all_columns[i], dtype |-> "float32",
                             cells |-> X_processed[i]]],
                  y |-> target.y,
                  pipeline |-> fitted,
                  preprocessing_info |->
                      build_preprocessing_info(column_info, target.target_encoder)]

\* _extract_encoder_artifacts: encoders[col]["categories"] for every categorical
\* column (the encoder and imputer objects themselves are left out)
extract_encoder_artifacts(pipeline, column_info) ==
    [i \in 1..Len(column_info.categorical_columns) |->
        <<column_info.categorical_columns[i], pipeline.categories[i]>>]

\* get_preprocessing_artifacts(pipeline, preprocessing_info)
get_preprocessing_artifacts(pipeline, preprocessing_info) ==
    LET column_info == preprocessing_info.column_info
        classes == preprocessing_info.target_encoder_classes
        encoders == IF pipeline.fitted /\ column_info.categorical_columns # <<>>
                    THEN DictUpdate(<<>>, extract_encoder_artifacts(pipeline, column_info))
                    ELSE <<>>
    IN  [numeric_columns |-> column_info.numeric_columns,
         categorical_columns |-> column_info.categorical_columns,
         datetime_columns |-> column_info.datetime_columns,
         encoders |-> IF (~classes.is_none) /\ classes.classes # <<>>
                      THEN DictSet(encoders, "_target", classes.classes)
                      ELSE encoders]

\* ------------------------------------------------------------ xgb_modeling
\* get_param_grid: an absent or empty custom grid is falsy
get_param_grid(req) ==
    IF (~req.custom_param_grid.is_none) /\ req.custom_param_grid.items # <<>>
    THEN req.custom_param_grid.items
    ELSE DEFAULT_PARAM_GRID

\* the statuses the orchestrator and its caller write
CreatedStatus == "training"
LoadingStatus == "Loading and processing data"
TuningStatus == "Tuning xgboost for best hyperparameters"
FinalizingStatus == "Finalizing model and calculating metrics"
CompletedStatus == "completed"
FailedStatus == "failed"
TaskErrorStatus == "error"
TaskFailedStatus == "failed"

\* the stage cleanup_failed_project records when its caller passes none
DefaultStage == "unknown"

\* prepare_training_data reading the dataset before it reports the status
prepare_training_data_late_status ==
    <<"read_csv_file", "status_loading", "preprocess_data", "split_train_test",
      "DMatrix", "update_project_dataset_info", "update_project_preprocessing">>

\* train_and_tune_xgboost_model saving the tuning info after the final fit
train_and_tune_late_save ==
    <<"status_tuning", "execute_hyperparameter_search", "status_finalizing",
      "fit_xgb_model", "update_project_tuning_results">>

\* The calls of the three phase functions, in statement order.
prepare_training_data ==
    <<"status_loading", "read_csv_file", "preprocess_data", "split_train_test",
      "DMatrix", "update_project_dataset_info", "update_project_preprocessing">>

train_and_tune_xgboost_model ==
    <<"status_tuning", "execute_hyperparameter_search",
      "update_project_tuning_results", "status_finalizing", "fit_xgb_model">>

\* process_and_save_results storing the results before the model is written
process_and_save_results_store_first ==
    <<"predict", "metrics", "update_project_results", "write_model_file">>

process_and_save_results ==
    <<"predict", "metrics", "write_model_file", "update_project_results">>

\* run_xgboost_training_flow: the try block
run_xgboost_training_flow ==
    prepare_training_data \o train_and_tune_xgboost_model \o process_and_save_results

\* the call following `step`, "return" after the last one
NextStep(step) ==
    LET flow == run_xgboost_training_flow
        i == CHOOSE k \in 1..Len(flow) : flow[k] = step
    IN  IF i = Len(flow) THEN "return" ELSE flow[i + 1]

\* ------------------------------------------------------------------ inputs
\* the keys requests list, in the order a request lists them
GridKeys == <<"max_depth", "learning_rate", "objective">>

\* the i-th value a request lists for key k
GridValue(k, i) ==
    IF k = "max_depth" THEN i + 2
    ELSE IF k = "learning_rate" THEN 10 * i
    ELSE i

KeySeqs ==
    {[i \in 1..Len(is) |-> GridKeys[is[i]]] :
        is \in {js \in UNION {[1..n -> 1..Len(GridKeys)] : n \in 0..MaxKeys} :
                    \A i \in 1..(Len(js) - 1) : js[i] < js[i + 1]}}

Grids ==
    UNION {{[i \in 1..Len(ks) |-> <<ks[i], [j \in 1..lens[i] |-> GridValue(ks[i], j)]>>] :
                lens \in [1..Len(ks) -> 0..MaxVals]} : ks \in KeySeqs}

Requests ==
    [feature_columns : 0..1,
     test_size : {0, 20},
     objective : {1},
     custom_param_grid :
        {[is_none |-> TRUE, items |-> <<>>]} \cup [is_none : {FALSE}, items : Grids]]

\* the columns of the datasets; the requests select the first feature_columns of them
ColumnNames == <<"c1", "c2">>

TargetColumn == "target"

RequestedColumns(req) == SubSeq(ColumnNames, 1, req.feature_columns)

\* what pd.read_csv and the tests' DataFrames give a feature column: numbers,
\* strings, timestamps (each with missing cells) or booleans
FeatureDTypes == {"float64", "object", "datetime64[ns]", "bool"}

TargetDTypes == {"float64", "object", "bool"}

\* the cells a feature column of a dtype holds
FeatureValues(dtype) ==
    CASE dtype = "float64" -> {Num(1), NA}
      [] dtype = "object" -> {Str("z"), Str("a"), Str(CategoricalFill), NA}
      [] dtype = "datetime64[ns]" -> {Timestamp(1), NA}
      [] dtype = "bool" -> {Bool(TRUE), Bool(FALSE)}

\* the cells a target column of a dtype holds
TargetValues(dtype) ==
    CASE dtype = "float64" -> {Num(1), NA}
      [] dtype = "object" -> {Str("B"), Str("A"), NA}
      [] dtype = "bool" -> {Bool(TRUE), Bool(FALSE)}

\* a value every row of a companion column holds
PlainValue(dtype) ==
    CASE dtype = "float64" -> Num(1)
      [] dtype = "object" -> Str("z")
      [] dtype = "datetime64[ns]" -> Timestamp(1)
      [] dtype = "bool" -> Bool(TRUE)

PlainColumn(name, dtype, rows) ==
    [name |-> name, dtype |-> dtype, cells |-> [r \in 1..rows |-> PlainValue(dtype)]]

\* every dataset of MaxRows rows with a first feature column of any dtype and any
\* cells, a second one of any dtype, and a target of any dtype and any cells
Datasets ==
    LET first == UNION {[name : {ColumnNames[1]}, dtype : {d1},
                         cells : [1..MaxRows -> FeatureValues(d1)]] : d1 \in FeatureDTypes}
        target == UNION {[name : {TargetColumn}, dtype : {dt},
                          cells : [1..MaxRows -> TargetValues(dt)]] : dt \in TargetDTypes}
    IN  {<<x1, PlainColumn(ColumnNames[2], d2, MaxRows), t>> :
            x1 \in first, d2 \in FeatureDTypes, t \in target}

\* the feature_columns a caller can pass: distinct columns of the dataset
Selections ==
    {sel \in UNION {[1..n -> {ColumnNames[i] : i \in 1..Len(ColumnNames)}] :
                        n \in 1..Len(ColumnNames)} :
        \A i, j \in 1..Len(sel) : i # j => sel[i] # sel[j]}

\* the one-row datasets with the columns and dtypes of df
Probes(data) ==
    {<<[name |-> data[1].name, dtype |-> data[1].dtype, cells |-> <<x1>>],
       PlainColumn(data[2].name, data[2].dtype, 1),
       [name |-> data[3].name, dtype |-> data[3].dtype, cells |-> <<t>>]>> :
        x1 \in FeatureValues(data[1].dtype), t \in TargetValues(data[3].dtype)}

\* the uploaded files: a numeric one, one with a missing target cell, one with a
\* boolean feature column, one without the requested feature column, one with a
\* boolean feature column and a missing target cell
CleanFile ==
    <<PlainColumn(ColumnNames[1], "float64", MaxRows),
      PlainColumn(ColumnNames[2], "object", MaxRows),
      PlainColumn(TargetColumn, "float64", MaxRows)>>

MissingTargetFile ==
    <<PlainColumn(ColumnNames[1], "float64", MaxRows),
      PlainColumn(ColumnNames[2], "object", MaxRows),
      [name |-> TargetColumn, dtype |-> "float64",
       cells |-> [r \in 1..MaxRows |-> IF r = MaxRows THEN NA ELSE Num(1)]]>>

BoolFeatureFile ==
    <<PlainColumn(ColumnNames[1], "bool", MaxRows),
      PlainColumn(ColumnNames[2], "object", MaxRows),
      PlainColumn(TargetColumn, "float64", MaxRows)>>

NoColumnFile ==
    <<PlainColumn(ColumnNames[2], "object", MaxRows),
      PlainColumn(TargetColumn, "float64", MaxRows)>>

MissingTargetBoolFile ==
    <<PlainColumn(ColumnNames[1], "bool", MaxRows),
      PlainColumn(ColumnNames[2], "object", MaxRows),
      [name |-> TargetColumn, dtype |-> "object",
       cells |-> [r \in 1..MaxRows |-> IF r = 1 THEN NA ELSE Str("A")]]>>

CsvFiles ==
    {CleanFile, MissingTargetFile, BoolFeatureFile, NoColumnFile, MissingTargetBoolFile}

\* ------------------------------------------------------------------- state
VARIABLES
    pc,                 \* the call about to be made
    request,            \* the TrainRequest of the run
    project,            \* the project document in the store
    statusLog,          \* every value written to the document's status, in order
    calls,              \* every collaborator call made, in order
    exc,                \* the exception in flight inside the orchestrator
    errStep,            \* the call that raised it
    caught,             \* the exception run_training_task received
    task_error,         \* the exception that left run_training_task
    param_combinations, \* execute_hyperparameter_search: the candidates
    idx,                \* execute_hyperparameter_search: candidates done
    best,               \* execute_hyperparameter_search: the running best
    evaluated,          \* the parameter sets handed to run_cross_validation
    progress,           \* the progress lines logged by the search
    training_result,    \* the TrainingResult of phase 3
    model_file,         \* whether models/<project_id>.json was written
    df,                 \* the DataFrame handed to preprocess_data
    prepared,           \* what preprocess_data and get_preprocessing_artifacts returned
    leader,             \* the best of the cross-validation results observed so far
    probe,              \* the DataFrame handed to preprocess_data with the fitted pipeline
    applied,            \* what preprocess_data returned for it
    args,               \* the arguments of a function called directly
    returned,           \* what that call returned or raised
    client,             \* MongoConnection._client
    made,               \* the MongoClients constructed, and whether a ping of each succeeded
    callers,            \* the get_client call of each thread
    handler,            \* the JSONFileHandler: _locks, _lock and the Lock objects created
    files,              \* the log files
    emits               \* the emit call of each thread

vars ==
    <<pc, request, project, statusLog, calls, exc, errStep, caught, task_error,
      param_combinations, idx, best, evaluated, progress, training_result, model_file,
      df, prepared, leader, probe, applied, args, returned,
      client, made, callers, handler, files, emits>>

\* the local variables of the phase functions, and what the search leaves behind
locals == <<param_combinations, idx, best, training_result, df, prepared, leader>>

\* the second, apply-mode call of preprocess_data
apply_mode_vars == <<probe, applied>>

\* one direct call of a utility function
call_vars == <<args, returned>>

\* no function is being called directly
NoCall == [function |-> "none"]

\* what a training run never touches
\* the global connection and its concurrent callers
conn_vars == <<client, made, callers>>

\* the log handler and its concurrent callers
log_vars == <<handler, files, emits>>

outside_run == <<apply_mode_vars, call_vars, conn_vars, log_vars>>

search_log == <<evaluated, progress>>

NoRequest ==
    [feature_columns |-> 0, test_size |-> 0, objective |-> 1,
     custom_param_grid |-> [is_none |-> TRUE, items |-> <<>>]]

\* MongoConnection._client = None
NoClient == 0

Callers == 1..MaxCallers

NotCalling == [pc |-> "none", result |-> NoClient]

\* mongo_conn = MongoConnection() at import, nobody calling get_client
NoConnection ==
    /\ client = NoClient
    /\ made = <<>>
    /\ callers = [t \in Callers |-> NotCalling]

\* the project ids of the log records; NoProjectId stands for a record without one
ProjectIds == {"p1", "p2"}

NoProjectId == ""

Emitters == 1..MaxEmitters

NoThread == 0

\* getattr(record, "project_id", "general")
General == "general"

LogNames == ProjectIds \cup {General}

NotEmitting ==
    [pc |-> "none", record |-> NoProjectId, project_id |-> NoProjectId, lock |-> 0,
     buffer |-> <<>>]

\* JSONFileHandler(filter_training_only=True): no locks, _lock free; created lists
\* the threading.Lock objects made for projects, each with the thread holding it
NewHandler ==
    [filter_training_only |-> TRUE,
     locks |-> [p \in LogNames |-> 0],
     guard |-> NoThread,
     created |-> <<>>]

\* the handler as setup_logging builds it, no log file written, nobody emitting
NoLogging ==
    /\ handler = NewHandler
    /\ files = [p \in LogNames |-> <<>>]
    /\ emits = [t \in Emitters |-> NotEmitting]

NoThreads == NoConnection /\ NoLogging

NoError == [message |-> "", stage |-> ""]

NoTuning == [saved |-> FALSE, best_score |-> NegInf, best_n_estimators |-> 0]

NoResults ==
    [saved |-> FALSE, cv_auc |-> NegInf, cv_auc_std |-> 0, model_params |-> <<>>,
     n_estimators |-> 0]

NoProject ==
    [exists |-> FALSE, status |-> "", dataset_info |-> FALSE, preprocessing |-> FALSE,
     tuning |-> NoTuning, results |-> NoResults, error |-> NoError]

NoTrainingResult == [none |-> TRUE]

\* what an observer of run_cross_validation's results knows: the first candidate
\* among those with the highest mean so far, and whether a later one had that mean too
NoLeader == [index |-> 0, mean |-> NegInf, std |-> 0, rounds |-> 0, tied |-> FALSE]

Observe(seen, index, cv) ==
    IF seen.index = 0 \/ cv.mean > seen.mean
    THEN [index |-> index, mean |-> cv.mean, std |-> cv.std, rounds |-> cv.rounds,
          tied |-> FALSE]
    ELSE IF cv.mean = seen.mean THEN [seen EXCEPT !.tied = TRUE]
    ELSE seen

NoDataset == <<>>

NoArtifacts ==
    [numeric_columns |-> <<>>, categorical_columns |-> <<>>, datetime_columns |-> <<>>,
     encoders |-> <<>>]

NoPrepared ==
    [called |-> FALSE, feature_columns |-> <<>>,
     result |-> PreprocessError("", NoPipeline), artifacts |-> NoArtifacts]

Init ==
    /\ pc = "idle"
    /\ request = NoRequest
    /\ project = NoProject
    /\ statusLog = <<>>
    /\ calls = <<>>
    /\ exc = "none"
    /\ errStep = "none"
    /\ caught = "none"
    /\ task_error = "none"
    /\ param_combinations = <<>>
    /\ idx = 0
    /\ best = InitialBest
    /\ evaluated = <<>>
    /\ progress = <<>>
    /\ training_result = NoTrainingResult
    /\ model_file = FALSE
    /\ df = NoDataset
    /\ prepared = NoPrepared
    /\ leader = NoLeader
    /\ probe = NoDataset
    /\ applied = NoPrepared
    /\ args = NoCall
    /\ returned = NoCall
    /\ NoThreads

\* ------------------------------------------------------------------ routes
\* create_project: the new document
create_project(req) ==
    [NoProject EXCEPT !.exists = TRUE, !.status = CreatedStatus]

\* POST /api/train: validate the body, create the document, queue the task
train_project ==
    /\ pc = "idle"
    /\ \E req \in Requests :
        /\ request' = req
        /\ IF ~TrainRequestValid(req)
           THEN /\ pc' = "rejected"
                /\ UNCHANGED <<project, statusLog, calls>>
           ELSE \E ok \in BOOLEAN :
                /\ calls' = Append(calls, "create_project")
                /\ IF ok
                   THEN /\ project' = create_project(req)
                        /\ statusLog' = Append(statusLog, CreatedStatus)
                        /\ pc' = "queued"
                   ELSE /\ pc' = "rejected"
                        /\ UNCHANGED <<project, statusLog>>
    /\ UNCHANGED <<exc, errStep, caught, task_error, model_file>>
    /\ UNCHANGED <<locals, search_log, outside_run>>

\* run_training_task: enter the try block and call the orchestrator
run_training_task ==
    /\ pc = "queued"
    /\ pc' = run_xgboost_training_flow[1]
    /\ UNCHANGED <<request, project, statusLog, calls, exc, errStep, caught, task_error,
                   model_file>>
    /\ UNCHANGED <<locals, search_log, outside_run>>

\* ------------------------------------------------------------ orchestrator
\* an exception leaves the try block of run_xgboost_training_flow: the frames of
\* the phase functions are unwound and their locals are gone
Raise(step, name) ==
    /\ exc' = name
    /\ errStep' = step
    /\ pc' = "except"
    /\ param_combinations' = <<>>
    /\ idx' = 0
    /\ best' = InitialBest
    /\ training_result' = NoTrainingResult
    /\ df' = NoDataset
    /\ prepared' = NoPrepared
    /\ leader' = NoLeader

\* the name of the exception a failing store call raises
StoreError(step) == "StoreError:" \o step

\* update_project_status(project_id, status), called at `step`
update_project_status(step, status) ==
    /\ pc = step
    /\ calls' = Append(calls, step)
    /\ \E ok \in BOOLEAN :
        IF ok
        THEN /\ project' = [project EXCEPT !.status = status]
             /\ statusLog' = Append(statusLog, status)
             /\ pc' = NextStep(step)
             /\ UNCHANGED <<exc, errStep, locals>>
        ELSE /\ Raise(step, StoreError(step))
             /\ UNCHANGED <<project, statusLog>>
    /\ UNCHANGED <<request, caught, task_error, model_file, search_log, outside_run>>

\* a call of a component: it returns, leaving `result` as the phase's
\* TrainingResult, or raises one of `errors`
Work(step, errors, result) ==
    /\ pc = step
    /\ calls' = Append(calls, step)
    /\ \E outcome \in {"ok"} \cup errors :
        IF outcome = "ok"
        THEN /\ pc' = NextStep(step)
             /\ training_result' = result
             /\ UNCHANGED <<exc, errStep, param_combinations, idx, best, df, prepared, leader>>
        ELSE Raise(step, outcome)
    /\ UNCHANGED <<request, project, statusLog, caught, task_error, search_log,
                   outside_run>>

\* a store call that sets fields of the document, called at `step`
StoreUpdate(step, doc) ==
    /\ pc = step
    /\ calls' = Append(calls, step)
    /\ \E ok \in BOOLEAN :
        IF ok
        THEN /\ project' = doc
             /\ pc' = NextStep(step)
             /\ UNCHANGED <<exc, errStep, locals>>
        ELSE /\ Raise(step, StoreError(step))
             /\ UNCHANGED project
    /\ UNCHANGED <<request, statusLog, caught, task_error, model_file, search_log,
                   outside_run>>

\* --- prepare_training_data
status_loading == update_project_status("status_loading", LoadingStatus)

\* read_csv_file(request.csv_filename): the file is missing, or its DataFrame
read_csv_file ==
    /\ pc = "read_csv_file"
    /\ calls' = Append(calls, "read_csv_file")
    /\ \/ Raise("read_csv_file", "FileNotFoundError")
       \/ \E file \in CsvFiles :
            /\ df' = file
            /\ pc' = NextStep("read_csv_file")
            /\ UNCHANGED <<exc, errStep, param_combinations, idx, best, training_result,
                           prepared, leader>>
    /\ UNCHANGED <<request, project, statusLog, caught, task_error, model_file, search_log,
                   outside_run>>

\* preprocess_data(df, request.feature_columns, request.target_column), then
\* get_preprocessing_artifacts(pipeline, preprocessing_info)
preprocess_data ==
    /\ pc = "preprocess_data"
    /\ calls' = Append(calls, "preprocess_data")
    /\ LET result == preprocess(df, RequestedColumns(request), TargetColumn, NoPipeline)
       IN  IF result.error # ""
           THEN Raise("preprocess_data", result.error)
           ELSE /\ prepared' =
                      [called |-> TRUE,
                       feature_columns |-> RequestedColumns(request),
                       result |-> result,
                       artifacts |-> get_preprocessing_artifacts(result.pipeline,
                                                                result.preprocessing_info)]
                /\ pc' = NextStep("preprocess_data")
                /\ UNCHANGED <<exc, errStep, param_combinations, idx, best, training_result,
                               df, leader>>
    /\ UNCHANGED <<request, project, statusLog, caught, task_error, model_file, search_log,
                   outside_run>>

split_train_test ==
    /\ Work("split_train_test", {"ValueError: split"},
            training_result)
    /\ UNCHANGED model_file

DMatrix ==
    /\ Work("DMatrix", {"XGBoostError: DMatrix"},
            training_result)
    /\ UNCHANGED model_file

update_project_dataset_info ==
    StoreUpdate("update_project_dataset_info", [project EXCEPT !.dataset_info = TRUE])

update_project_preprocessing ==
    StoreUpdate("update_project_preprocessing", [project EXCEPT !.preprocessing = TRUE])

\* --- train_and_tune_xgboost_model
status_tuning == update_project_status("status_tuning", TuningStatus)

\* the parameter set cross-validated or fitted for a candidate
MergeParams(objective, params) ==
    DictUpdate(<< <<"objective", objective>> >>, params)

\* execute_hyperparameter_search up to the loop
execute_hyperparameter_search ==
    /\ pc = "execute_hyperparameter_search"
    /\ LET combos == build_param_grid(get_param_grid(request))
       IN  /\ param_combinations' = combos
           /\ pc' = IF Len(combos) = 0
                    THEN NextStep("execute_hyperparameter_search")
                    ELSE "cv_loop"
    /\ idx' = 0
    /\ best' = InitialBest
    /\ leader' = NoLeader
    /\ UNCHANGED <<request, project, statusLog, calls, exc, errStep, caught, task_error,
                   training_result, model_file, search_log, df, prepared, outside_run>>

\* one iteration of the loop: cross-validate candidate idx + 1
cv_loop ==
    /\ pc = "cv_loop"
    /\ idx < Len(param_combinations)
    /\ LET params == param_combinations[idx + 1]
           cv_params == MergeParams(request.objective, params)
       IN  /\ calls' = Append(calls, "run_cross_validation")
           /\ \E cv \in CvOutcomes :
              /\ evaluated' = Append(evaluated, [index |-> idx + 1, params |-> cv_params,
                                                 raised |-> cv.kind = "raise"])
              /\
                IF leaves_search(cv)
                THEN /\ Raise("execute_hyperparameter_search", "XGBoostError: cv")
                     /\ UNCHANGED progress
                ELSE /\ best' = UpdateBest(best, params, cv)
                     /\ idx' = idx + 1
                     /\ progress' = log_progress(progress, idx + 1, Len(param_combinations),
                                                 best, best')
                     /\ leader' = Observe(leader, idx + 1, cv)
                     /\ pc' = IF idx + 1 = Len(param_combinations)
                              THEN NextStep("execute_hyperparameter_search")
                              ELSE "cv_loop"
                     /\ UNCHANGED <<exc, errStep, param_combinations, training_result,
                                    df, prepared>>
    /\ UNCHANGED <<request, project, statusLog, caught, task_error, model_file,
                   outside_run>>

update_project_tuning_results ==
    StoreUpdate("update_project_tuning_results",
                [project EXCEPT !.tuning = [saved |-> TRUE,
                                            best_score |-> best.score,
                                            best_n_estimators |-> best.n_estimators]])

\* the finalizing call storing the tuning status once more
status_finalizing_repeat == update_project_status("status_finalizing", TuningStatus)

status_finalizing == update_project_status("status_finalizing", FinalizingStatus)

\* the default of fit_xgb_model's evals and early_stopping_rounds
None == "None"

\* a final fit on the number of rounds the cross-validations start from
xgb_train_all_rounds(params, num_rounds, evals, early_stopping_rounds) ==
    [params |-> params, num_rounds |-> CvNumRounds, evals |-> evals,
     early_stopping_rounds |-> early_stopping_rounds]

\* xgb.train(params=..., num_boost_round=..., evals=..., early_stopping_rounds=...):
\* the booster, known by what it was trained with
xgb_train(params, num_rounds, evals, early_stopping_rounds) ==
    [params |-> params, num_rounds |-> num_rounds, evals |-> evals,
     early_stopping_rounds |-> early_stopping_rounds]

\* fit_xgb_model on the merged parameters, then TrainingResult(...)
fit_xgb_model ==
    /\ Work("fit_xgb_model", {"XGBoostError: train"},
            TrainingResult(
                [model |-> xgb_train(MergeParams(request.objective, best.params),
                                 best.n_estimators, None, None),
                 best_params |-> best.params,
                 cv_auc |-> best.score,
                 cv_auc_std |-> best.std,
                 best_n_estimators |-> best.n_estimators]))
    /\ UNCHANGED model_file

\* --- process_and_save_results
predict ==
    /\ Work("predict", {"XGBoostError: predict", "ValueError: roc_auc_score"},
            training_result)
    /\ UNCHANGED model_file

metrics ==
    /\ Work("metrics", {"ValueError: metrics"},
            training_result)
    /\ UNCHANGED model_file

write_model_file ==
    /\ Work("write_model_file", {"XGBoostError: save_model"}, training_result)
    /\ model_file' = (model_file \/ pc' # "except")

\* build_results_dict(...) from the fields of the TrainingResult, then
\* update_project_results and the return of the orchestrator
update_project_results ==
    /\ pc = "update_project_results"
    /\ IF "cv_auc_std" \notin DOMAIN training_result
       THEN /\ Raise("build_results_dict", "AttributeError: cv_auc_std")
            /\ UNCHANGED <<project, statusLog, calls>>
       ELSE /\ calls' = Append(calls, "update_project_results")
            /\ \E ok \in BOOLEAN :
                IF ok
                THEN /\ project' =
                          [project EXCEPT
                             !.status = CompletedStatus,
                             !.results = [saved |-> TRUE,
                                          cv_auc |-> training_result.cv_auc,
                                          cv_auc_std |-> training_result.cv_auc_std,
                                          model_params |-> training_result.best_params,
                                          n_estimators |-> training_result.best_n_estimators]]
                     /\ statusLog' = Append(statusLog, CompletedStatus)
                     /\ pc' = "done"
                     /\ UNCHANGED <<exc, errStep, locals>>
                ELSE /\ Raise("update_project_results", StoreError("update_project_results"))
                     /\ UNCHANGED <<project, statusLog>>
    /\ UNCHANGED <<request, caught, task_error, model_file, search_log, outside_run>>

\* --- the except clause of run_xgboost_training_flow
\* cleanup_failed_project recording the error without setting the status
cleanup_failed_project_no_status(doc, error_message, stage) ==
    [doc EXCEPT !.error = [message |-> error_message, stage |-> stage]]

\* cleanup_failed_project(project_id, error_message, stage): the document it writes
cleanup_failed_project(doc, error_message, stage) ==
    [doc EXCEPT !.status = FailedStatus,
                !.error = [message |-> error_message, stage |-> stage]]

\* except Exception as e: cleanup_failed_project(project_id, str(e)); raise
except_clause ==
    /\ pc = "except"
    /\ calls' = Append(calls, "cleanup_failed_project")
    /\ \E ok \in BOOLEAN :
        IF ok
        THEN /\ project' = cleanup_failed_project(project, exc, DefaultStage)
             /\ statusLog' = Append(statusLog, project'.status)
             /\ caught' = exc
        ELSE /\ caught' = StoreError("cleanup_failed_project")
             /\ UNCHANGED <<project, statusLog>>
    /\ pc' = "task_except"
    /\ UNCHANGED <<request, exc, errStep, task_error, model_file>>
    /\ UNCHANGED <<locals, search_log, outside_run>>

\* --- the except clause of run_training_task
task_except ==
    /\ pc = "task_except"
    /\ calls' = Append(calls, "status_failed")
    /\ \E ok \in BOOLEAN :
        IF ok
        THEN /\ project' = [project EXCEPT !.status = TaskFailedStatus]
             /\ statusLog' = Append(statusLog, TaskFailedStatus)
             /\ task_error' = "none"
        ELSE /\ task_error' = StoreError("status_failed")
             /\ UNCHANGED <<project, statusLog>>
    /\ pc' = "done"
    /\ UNCHANGED <<request, exc, errStep, caught, model_file>>
    /\ UNCHANGED <<locals, search_log, outside_run>>

Next ==
    \/ train_project
    \/ run_training_task
    \/ status_loading
    \/ read_csv_file
    \/ preprocess_data
    \/ split_train_test
    \/ DMatrix
    \/ update_project_dataset_info
    \/ update_project_preprocessing
    \/ status_tuning
    \/ execute_hyperparameter_search
    \/ cv_loop
    \/ update_project_tuning_results
    \/ status_finalizing
    \/ fit_xgb_model
    \/ predict
    \/ metrics
    \/ write_model_file
    \/ update_project_results
    \/ except_clause
    \/ task_except

Spec == Init /\ [][Next]_vars

\* The task is a sequential Python call: whenever a step is enabled, one is taken.
FairSpec == Spec /\ WF_vars(Next)

\* ---------------------------------------------- functions called directly
\* The functions as the tests call them: preprocess_data without a pipeline on a
\* dataset, then with the pipeline it returned; build_param_grid on a grid.
task_vars ==
    <<request, project, statusLog, calls, exc, errStep, caught, task_error,
      param_combinations, idx, best, evaluated, progress, training_result, model_file>>

\* the grids handed to build_param_grid
DirectGrids == Grids \cup {DEFAULT_PARAM_GRID}

DirectInit ==
    /\ \/ /\ pc = "fit_transform"
          /\ df \in Datasets
          /\ request = NoRequest
       \/ /\ pc = "build_param_grid"
          /\ df = NoDataset
          /\ request \in {[NoRequest EXCEPT !.custom_param_grid =
                                            [is_none |-> FALSE, items |-> g]] :
                              g \in DirectGrids}
    /\ prepared = NoPrepared
    /\ leader = NoLeader
    /\ probe = NoDataset
    /\ applied = NoPrepared
    /\ args = NoCall
    /\ returned = NoCall
    /\ NoThreads
    /\ project = NoProject
    /\ statusLog = <<>>
    /\ calls = <<>>
    /\ exc = "none"
    /\ errStep = "none"
    /\ caught = "none"
    /\ task_error = "none"
    /\ param_combinations = <<>>
    /\ idx = 0
    /\ best = InitialBest
    /\ evaluated = <<>>
    /\ progress = <<>>
    /\ training_result = NoTrainingResult
    /\ model_file = FALSE

\* what one call of preprocess_data, followed by get_preprocessing_artifacts when it
\* returned, leaves its caller with
PreprocessCall(data, feature_columns, pipeline) ==
    LET result == preprocess(data, feature_columns, TargetColumn, pipeline)
    IN  [called |-> TRUE,
         feature_columns |-> feature_columns,
         result |-> result,
         artifacts |-> IF result.error = ""
                       THEN get_preprocessing_artifacts(result.pipeline,
                                                        result.preprocessing_info)
                       ELSE NoArtifacts]

\* preprocess_data(df, feature_columns, target_column)
fit_transform_mode ==
    /\ pc = "fit_transform"
    /\ \E sel \in Selections : prepared' = PreprocessCall(df, sel, NoPipeline)
    /\ pc' = IF prepared'.result.error = "" THEN "apply" ELSE "raised"
    /\ UNCHANGED <<task_vars, df, leader, outside_run>>

\* preprocess_data(probe, feature_columns, target_column, pipeline)
apply_mode ==
    /\ pc = "apply"
    /\ \E data \in Probes(df) :
        /\ probe' = data
        /\ applied' = PreprocessCall(data, prepared.feature_columns, prepared.result.pipeline)
    /\ pc' = "applied"
    /\ UNCHANGED <<task_vars, df, prepared, leader, call_vars, conn_vars, log_vars>>

\* build_param_grid(request.custom_param_grid)
build_param_grid_call ==
    /\ pc = "build_param_grid"
    /\ param_combinations' = build_param_grid(request.custom_param_grid.items)
    /\ pc' = "built"
    /\ UNCHANGED <<request, project, statusLog, calls, exc, errStep, caught, task_error,
                   idx, best, evaluated, progress, training_result, model_file>>
    /\ UNCHANGED <<df, prepared, leader, outside_run>>

DirectNext ==
    \/ fit_transform_mode
    \/ apply_mode
    \/ build_param_grid_call

DirectSpec == DirectInit /\ [][DirectNext]_vars

\* -------------------------------------------------- utility functions called
\* everything but pc and the call being made
idle_vars == <<task_vars, df, prepared, leader, apply_mode_vars, conn_vars, log_vars>>

Idle ==
    /\ request = NoRequest
    /\ project = NoProject
    /\ statusLog = <<>>
    /\ calls = <<>>
    /\ exc = "none"
    /\ errStep = "none"
    /\ caught = "none"
    /\ task_error = "none"
    /\ param_combinations = <<>>
    /\ idx = 0
    /\ best = InitialBest
    /\ evaluated = <<>>
    /\ progress = <<>>
    /\ training_result = NoTrainingResult
    /\ model_file = FALSE
    /\ df = NoDataset
    /\ prepared = NoPrepared
    /\ leader = NoLeader
    /\ probe = NoDataset
    /\ applied = NoPrepared

\* the test_size values of the requests, in hundredths
TestSizes == {20, 40, 50}

\* the transformed datasets of up to max_rows rows handed to split_train_test:
\* binary targets
SplitArgs(max_rows) ==
    UNION {[function : {"split_train_test"},
            X : {Frame([i \in 1..n |-> 100 + i])},
            y : {Frame(labels) : labels \in [1..n -> {0, 1}]},
            test_size : TestSizes] : n \in 1..max_rows}

\* the names a request can list as feature columns
FeatureNames == <<"a", "b", "f0">>

\* the keys a booster reports scores under
ScoreKeys == <<"a", "f0", "f1">>

\* what get_score answers for an importance type: no entry, some of the keys with a
\* score of their own, or an entry of 0.0 beside a positional one
ScoreDicts(importance_type) ==
    LET base == CASE importance_type = "gain" -> 10
                  [] importance_type = "weight" -> 20
                  [] importance_type = "cover" -> 30
        Entries(keys) ==
            LET Used(k) == k \in keys
                used == SelectSeq(ScoreKeys, Used)
            IN  [i \in 1..Len(used) |->
                    <<used[i], base + (CHOOSE j \in 1..Len(ScoreKeys) : ScoreKeys[j] = used[i])>>]
    IN  {Entries(keys) : keys \in SUBSET Range(ScoreKeys)}
            \cup {<< <<"a", 0>>, <<"f0", base>> >>}

\* the calls of extract_feature_importance with up to max_features names
ImportanceArgs(max_features) ==
    [function : {"extract_feature_importance"},
     model : [gain : ScoreDicts("gain"), weight : ScoreDicts("weight"),
              cover : ScoreDicts("cover")],
     feature_names : UNION {[1..n -> Range(FeatureNames)] : n \in 1..max_features}]

\* n_bins: the default and the one of the tests
DefaultBins == 10

BinCounts == {2, DefaultBins}

\* the predicted probabilities, in hundredths
Predictions == {10, 50, 90}

\* the calls of compute_lift_chart_data on up to max_rows held-out rows
LiftArgs(max_rows) ==
    UNION {[function : {"compute_lift_chart_data"},
            y_true : [1..n -> {0, 1}],
            y_pred_proba : [1..n -> Predictions],
            n_bins : BinCounts] : n \in 1..max_rows}

\* the names a grid handed to validate_param_grid uses: two tunable parameters, the
\* alias of a third, a parameter that is not tunable
ValidatedKeys == <<"max_depth", "learning_rate", "reg_lambda", "objective">>

\* the values it lists: 3 and 0.5
ListedValues == {PyInt(3), PyFloat(50)}

\* what it holds for one key: a list of up to max_listed values, or a bare value
ListedFor(max_listed) ==
    UNION {[is_list : {TRUE}, items : [1..n -> ListedValues]] : n \in 0..max_listed}
        \cup {[is_list |-> FALSE, items |-> <<PyInt(3)>>]}

\* the grids of up to max_keys keys, and the default grid
ValidatedGrids(max_keys, max_listed) ==
    UNION {{[i \in 1..Len(ks) |-> <<ValidatedKeys[ks[i]], listed[i]>>] :
                listed \in [1..Len(ks) -> ListedFor(max_listed)]} :
            ks \in {js \in UNION {[1..n -> 1..Len(ValidatedKeys)] : n \in 0..max_keys} :
                        \A i \in 1..(Len(js) - 1) : js[i] < js[i + 1]}}
        \cup {TypedDefaultGrid}

ValidateArgs(max_keys, max_listed) ==
    [function : {"validate_param_grid"}, param_grid : ValidatedGrids(max_keys, max_listed)]

UtilInit ==
    /\ Idle
    /\ args \in SplitArgs(MaxSplitRows)
                    \cup ImportanceArgs(MaxFeatures)
                    \cup LiftArgs(MaxTestRows)
                    \cup ValidateArgs(MaxGridKeys, MaxListed)
    /\ pc = args.function
    /\ returned = NoCall
    /\ NoThreads

\* split_train_test(X, y, test_size)
split_train_test_call ==
    /\ pc = "split_train_test"
    /\ returned' \in split(args.X, args.y, args.test_size)
    /\ pc' = "returned"
    /\ UNCHANGED <<idle_vars, args>>

\* extract_feature_importance(model, feature_names)
extract_feature_importance_call ==
    /\ pc = "extract_feature_importance"
    /\ returned' = extract_feature_importance(args.model, args.feature_names)
    /\ pc' = "returned"
    /\ UNCHANGED <<idle_vars, args>>

\* compute_lift_chart_data(y_true, y_pred_proba, n_bins)
compute_lift_chart_data_call ==
    /\ pc = "compute_lift_chart_data"
    /\ returned' = [function |-> "compute_lift_chart_data",
                    lift_data |-> compute_lift_chart_data(args.y_true, args.y_pred_proba,
                                                          args.n_bins)]
    /\ pc' = "returned"
    /\ UNCHANGED <<idle_vars, args>>

\* validate_param_grid(param_grid)
validate_param_grid_call ==
    /\ pc = "validate_param_grid"
    /\ returned' = validate_param_grid(args.param_grid)
    /\ pc' = "returned"
    /\ UNCHANGED <<idle_vars, args>>

UtilNext ==
    \/ split_train_test_call
    \/ validate_param_grid_call
    \/ compute_lift_chart_data_call
    \/ extract_feature_importance_call

UtilSpec == UtilInit /\ [][UtilNext]_vars

\* ------------------------------------- process_and_save_results called directly
\* process_and_save_results(data_prep_result, training_result, project_id, request)
\* handed an object that carries every attribute the function reads, for a project
\* whose document phase 3 left in the finalizing status.
SavedCandidates == {<<>>, << <<"max_depth", 3>> >>, << <<"objective", 2>> >>}

TrainingObjects ==
    {[model |-> xgb_train(MergeParams(1, p), n, None, None),
      best_params |-> p, cv_auc |-> m, cv_auc_std |-> s, best_n_estimators |-> n] :
        p \in SavedCandidates,
        m \in CvDefaultMean..(CvDefaultMean + ScoreSteps),
        s \in 0..MaxStd,
        n \in 1..MaxRounds}

SaveInit ==
    /\ pc = "predict"
    /\ training_result \in TrainingObjects
    /\ request = [NoRequest EXCEPT !.feature_columns = 1, !.test_size = 20]
    /\ project = [create_project(request) EXCEPT
                        !.status = FinalizingStatus,
                        !.dataset_info = TRUE,
                        !.preprocessing = TRUE,
                        !.tuning = [saved |-> TRUE,
                                    best_score |-> training_result.cv_auc,
                                    best_n_estimators |-> training_result.best_n_estimators]]
    /\ statusLog = <<FinalizingStatus>>
    /\ calls = <<>>
    /\ exc = "none"
    /\ errStep = "none"
    /\ caught = "none"
    /\ task_error = "none"
    /\ param_combinations = <<>>
    /\ idx = 0
    /\ best = InitialBest
    /\ evaluated = <<>>
    /\ progress = <<>>
    /\ model_file = FALSE
    /\ df = NoDataset
    /\ prepared = NoPrepared
    /\ leader = NoLeader
    /\ probe = NoDataset
    /\ applied = NoPrepared
    /\ args = NoCall
    /\ returned = NoCall
    /\ NoThreads

\* the statements of process_and_save_results; an exception leaves the function
SaveNext ==
    \/ predict
    \/ metrics
    \/ write_model_file
    \/ update_project_results

SaveSpec == SaveInit /\ [][SaveNext]_vars

\* ------------------------------------------------- mongo_utils: MongoConnection
\* Threads calling mongo_conn.get_client() at the same time; the interpreter may
\* switch threads between any two of the statements.
ConnInit ==
    /\ Idle
    /\ pc = "get_client"
    /\ args = NoCall
    /\ returned = NoCall
    /\ client = NoClient
    /\ made = <<>>
    /\ callers = [t \in Callers |-> [pc |-> "check", result |-> NoClient]]
    /\ NoLogging

\* if self._client is None:
get_client_check ==
    \E t \in Callers :
        /\ callers[t].pc = "check"
        /\ callers' = [callers EXCEPT ![t].pc = IF client = NoClient THEN "construct"
                                                ELSE "return"]
        /\ UNCHANGED <<client, made>>
        /\ UNCHANGED <<pc, task_vars, df, prepared, leader, apply_mode_vars, call_vars,
                       log_vars>>

\* self._client = MongoClient(MONGODB_URI)
MongoClient ==
    \E t \in Callers :
        /\ callers[t].pc = "construct"
        /\ made' = Append(made, FALSE)
        /\ client' = Len(made')
        /\ callers' = [callers EXCEPT ![t].pc = "ping"]
        /\ UNCHANGED <<pc, task_vars, df, prepared, leader, apply_mode_vars, call_vars,
                       log_vars>>

\* self._client.admin.command("ping"): it returns, or raises ConnectionFailure, which
\* the except clause prints and re-raises
ping ==
    \E t \in Callers :
        /\ callers[t].pc = "ping"
        /\ \E ok \in BOOLEAN :
            IF ok
            THEN /\ made' = [made EXCEPT ![client] = TRUE]
                 /\ callers' = [callers EXCEPT ![t].pc = "return"]
            ELSE /\ callers' = [callers EXCEPT ![t].pc = "raised"]
                 /\ UNCHANGED made
        /\ UNCHANGED client
        /\ UNCHANGED <<pc, task_vars, df, prepared, leader, apply_mode_vars, call_vars,
                       log_vars>>

\* return self._client
get_client_return ==
    \E t \in Callers :
        /\ callers[t].pc = "return"
        /\ callers' = [callers EXCEPT ![t] = [pc |-> "returned", result |-> client]]
        /\ UNCHANGED <<client, made>>
        /\ UNCHANGED <<pc, task_vars, df, prepared, leader, apply_mode_vars, call_vars,
                       log_vars>>

ConnNext ==
    \/ get_client_check
    \/ MongoClient
    \/ ping
    \/ get_client_return

ConnSpec == ConnInit /\ [][ConnNext]_vars

\* ------------------------------------------------ logging_config: JSONFileHandler
\* Threads calling emit(record) on the handler at the same time, each with a record
\* of a project or a record without a project id.
LogInit ==
    /\ Idle
    /\ pc = "emit"
    /\ args = NoCall
    /\ returned = NoCall
    /\ NoConnection
    /\ handler = NewHandler
    /\ files = [p \in LogNames |-> <<>>]
    /\ emits \in [Emitters -> {[NotEmitting EXCEPT !.pc = "emit", !.record = p] :
                                    p \in ProjectIds \cup {NoProjectId}}]

\* what emit leaves alone
log_idle == <<pc, task_vars, df, prepared, leader, apply_mode_vars, call_vars, conn_vars>>

\* a get_lock_for_project that makes a Lock on every call
always_missing(locks, project_id) == TRUE

\* project_id not in self._locks
missing(locks, project_id) == locks[project_id] = 0

\* one piece of text written to a log file: the JSON of thread t's record, or the
\* newline that ends its line
Text(t, part) == [record |-> t, project_id |-> emits[t].record, part |-> part]

\* emit up to get_lock_for_project: the filter, the project id, the entry and the path
emit ==
    \E t \in Emitters :
        /\ emits[t].pc = "emit"
        /\ emits' =
            [emits EXCEPT ![t] =
                IF handler.filter_training_only /\ emits[t].record = NoProjectId
                THEN [@ EXCEPT !.pc = "returned"]
                ELSE [@ EXCEPT !.pc = "get_lock_for_project",
                               !.project_id = IF emits[t].record = NoProjectId
                                              THEN General
                                              ELSE emits[t].record]]
        /\ UNCHANGED <<handler, files, log_idle>>

\* get_lock_for_project: with self._lock
get_lock_for_project ==
    \E t \in Emitters :
        /\ emits[t].pc = "get_lock_for_project"
        /\ handler.guard = NoThread
        /\ handler' = [handler EXCEPT !.guard = t]
        /\ emits' = [emits EXCEPT ![t].pc = "lookup"]
        /\ UNCHANGED <<files, log_idle>>

\* if project_id not in self._locks: self._locks[project_id] = threading.Lock()
lookup ==
    \E t \in Emitters :
        /\ emits[t].pc = "lookup"
        /\ handler' =
            IF missing(handler.locks, emits[t].project_id)
            THEN [handler EXCEPT
                    !.created = Append(@, [project_id |-> emits[t].project_id,
                                           holder |-> NoThread]),
                    !.locks[emits[t].project_id] = Len(handler.created) + 1]
            ELSE handler
        /\ emits' = [emits EXCEPT ![t].pc = "return_lock"]
        /\ UNCHANGED <<files, log_idle>>

\* return self._locks[project_id], leaving the with block
return_lock ==
    \E t \in Emitters :
        /\ emits[t].pc = "return_lock"
        /\ handler' = [handler EXCEPT !.guard = NoThread]
        /\ emits' = [emits EXCEPT ![t].pc = "with_lock",
                                  ![t].lock = handler.locks[emits[t].project_id]]
        /\ UNCHANGED <<files, log_idle>>

\* with lock: the thread waits until the Lock is free
with_lock ==
    \E t \in Emitters :
        /\ emits[t].pc = "with_lock"
        /\ handler.created[emits[t].lock].holder = NoThread
        /\ handler' = [handler EXCEPT !.created[emits[t].lock].holder = t]
        /\ emits' = [emits EXCEPT ![t].pc = "open"]
        /\ UNCHANGED <<files, log_idle>>

\* with open(log_file, "a") as f
open ==
    \E t \in Emitters :
        /\ emits[t].pc = "open"
        /\ emits' = [emits EXCEPT ![t].pc = "json_dump", ![t].buffer = <<>>]
        /\ UNCHANGED <<handler, files, log_idle>>

\* json.dump(log_entry, f): the text stays in the buffer of f, or the buffer is
\* flushed to the file when it fills
json_dump ==
    \E t \in Emitters :
        /\ emits[t].pc = "json_dump"
        /\ \E flushed \in BOOLEAN :
            IF flushed
            THEN /\ files' = [files EXCEPT ![emits[t].project_id] =
                                                Append(@, Text(t, "entry"))]
                 /\ emits' = [emits EXCEPT ![t].pc = "write"]
            ELSE /\ emits' = [emits EXCEPT ![t].pc = "write",
                                           ![t].buffer = <<Text(t, "entry")>>]
                 /\ UNCHANGED files
        /\ UNCHANGED <<handler, log_idle>>

\* f.write("\n")
write ==
    \E t \in Emitters :
        /\ emits[t].pc = "write"
        /\ emits' = [emits EXCEPT ![t].pc = "close",
                                  ![t].buffer = Append(@, Text(t, "newline"))]
        /\ UNCHANGED <<handler, files, log_idle>>

\* leaving with open(...): the buffer is appended to the file
close ==
    \E t \in Emitters :
        /\ emits[t].pc = "close"
        /\ files' = [files EXCEPT ![emits[t].project_id] = @ \o emits[t].buffer]
        /\ emits' = [emits EXCEPT ![t].pc = "release", ![t].buffer = <<>>]
        /\ UNCHANGED <<handler, log_idle>>

\* leaving with lock
release ==
    \E t \in Emitters :
        /\ emits[t].pc = "release"
        /\ handler' = [handler EXCEPT !.created[emits[t].lock].holder = NoThread]
        /\ emits' = [emits EXCEPT ![t].pc = "returned"]
        /\ UNCHANGED <<files, log_idle>>

LogNext ==
    \/ emit
    \/ get_lock_for_project
    \/ lookup
    \/ return_lock
    \/ with_lock
    \/ open
    \/ json_dump
    \/ write
    \/ close
    \/ release

LogSpec == LogInit /\ [][LogNext]_vars

\* ================================================================== claims
Count(s, x) == Cardinality({i \in 1..Len(s) : s[i] = x})

\* the position of the first x in s, 0 when there is none
FirstIndex(s, x) ==
    IF x \in Range(s)
    THEN CHOOSE i \in 1..Len(s) : s[i] = x /\ \A j \in 1..(i - 1) : s[j] # x
    ELSE 0

\* x was called, and before the first y if y was called at all
Before(x, y) ==
    /\ x \in Range(calls)
    /\ y \in Range(calls) => FirstIndex(calls, x) < FirstIndex(calls, y)

Terminal == {"completed", "failed"}

\* the status writes of the run itself: everything after the "training" of create_project
RunStatuses == IF statusLog = <<>> THEN <<>> ELSE Tail(statusLog)

\* the phase names of the specification for the statuses the code writes
PhaseName(status) ==
    CASE status = "Loading and processing data" -> "loading_data"
      [] status = "Tuning xgboost for best hyperparameters" -> "tuning"
      [] status = "Finalizing model and calculating metrics" -> "finalizing"
      [] OTHER -> status

SpecPhases ==
    <<"loading_data", "preprocessing", "splitting", "tuning", "finalizing",
      "evaluating", "completed">>

CodePhases ==
    <<"Loading and processing data", "Tuning xgboost for best hyperparameters",
      "Finalizing model and calculating metrics", "completed">>

\* C1 (as claimed): until the run fails, the i-th status written is the i-th of
\* loading_data, preprocessing, splitting, tuning, finalizing, evaluating, completed.
C1_SevenPhaseOrder ==
    \A i \in 1..Len(RunStatuses) :
        (\A j \in 1..i : RunStatuses[j] # "failed")
            => /\ i <= Len(SpecPhases)
               /\ PhaseName(RunStatuses[i]) = SpecPhases[i]

\* C1 (amended): until the run fails, the i-th status written is the i-th of the
\* loading, tuning and finalizing statuses and completed: each write is the immediate
\* successor of the previous one, none skipped, repeated or revisited.
C1_StatusOrder ==
    \A i \in 1..Len(RunStatuses) :
        (\A j \in 1..i : RunStatuses[j] # "failed")
            => /\ i <= Len(CodePhases)
               /\ RunStatuses[i] = CodePhases[i]

C1_Witness ==
    /\ statusLog = <<"training", "Loading and processing data",
                     "Tuning xgboost for best hyperparameters",
                     "Finalizing model and calculating metrics">>
    /\ "write_model_file" \in Range(calls)

\* C2 (as claimed): once the stored status is completed or failed, no step writes
\* the status again.
C2_NoWriteAfterTerminal ==
    [][project.status \in Terminal => statusLog' = statusLog]_vars

\* C2 (amended): once the stored status is completed or failed its value never
\* changes; the only later write is run_training_task storing failed once more.
C2_TerminalIsStable ==
    [][project.status \in Terminal => project'.status = project.status]_vars

C2_Witness ==
    /\ pc = "done"
    /\ Len(statusLog) >= 2
    /\ statusLog[Len(statusLog)] = "failed"
    /\ statusLog[Len(statusLog) - 1] = "failed"

\* the phase of the specification in which a call is made
PhaseOf(step) ==
    CASE step \in {"status_loading", "read_csv_file"} -> "loading_data"
      [] step = "preprocess_data" -> "preprocessing"
      [] step \in {"split_train_test", "DMatrix", "update_project_dataset_info",
                   "update_project_preprocessing"} -> "splitting"
      [] step \in {"status_tuning", "execute_hyperparameter_search",
                   "update_project_tuning_results"} -> "tuning"
      [] step \in {"status_finalizing", "fit_xgb_model"} -> "finalizing"
      [] OTHER -> "evaluating"

\* C3: when a phase raised, the status is failed and the failure record holds the
\* error's message and the name of the phase that raised it.
C3_FailureRecord ==
    /\ project.error # NoError
         => /\ project.error.message = exc
            /\ project.error.stage = PhaseOf(errStep)
    /\ (pc = "done" /\ exc # "none") => project.status = "failed"

\* C4: the caller of the orchestrator receives the error the phase raised, and
\* only after the failure record was persisted.
C4_OriginalErrorAfterRecord ==
    (pc \in {"task_except", "done"} /\ exc # "none")
        => /\ caught = exc
           /\ project.status = "failed"
           /\ project.error.message = exc

\* the status the specification requires before a piece of work
SpecStatusFor(work) ==
    CASE work = "read_csv_file" -> "loading_data"
      [] work = "preprocess_data" -> "preprocessing"
      [] work = "split_train_test" -> "splitting"
      [] work = "run_cross_validation" -> "tuning"
      [] work = "fit_xgb_model" -> "finalizing"
      [] work = "predict" -> "evaluating"

PhaseWork ==
    {"read_csv_file", "preprocess_data", "split_train_test", "run_cross_validation",
     "fit_xgb_model", "predict"}

\* C5 (as claimed): each piece of work starts only after the status of its own
\* phase (loading_data, preprocessing, splitting, tuning, finalizing, evaluating)
\* was written.
C5_OwnStatusFirst ==
    \A w \in PhaseWork \cap Range(calls) :
        SpecStatusFor(w) \in {PhaseName(RunStatuses[i]) : i \in 1..Len(RunStatuses)}

\* the status call the code makes ahead of a piece of work, and the value it stores
StatusCallFor(work) ==
    CASE work \in {"read_csv_file", "preprocess_data", "split_train_test"} -> "status_loading"
      [] work = "run_cross_validation" -> "status_tuning"
      [] work \in {"fit_xgb_model", "predict"} -> "status_finalizing"

StatusFor(work) ==
    CASE work \in {"read_csv_file", "preprocess_data", "split_train_test"}
            -> "Loading and processing data"
      [] work = "run_cross_validation" -> "Tuning xgboost for best hyperparameters"
      [] work \in {"fit_xgb_model", "predict"} -> "Finalizing model and calculating metrics"

\* C5 (amended): each of the three phase statuses is stored before any work it
\* covers starts: the loading status before the read, the transform and the split,
\* the tuning status before the first cross-validation, the finalizing status before
\* the final fit and before the held-out predictions.
C5_CoveringStatusFirst ==
    \A w \in PhaseWork \cap Range(calls) :
        /\ Before(StatusCallFor(w), w)
        /\ StatusFor(w) \in Range(statusLog)

C5_Witness ==
    /\ "predict" \in Range(calls)
    /\ "run_cross_validation" \in Range(calls)

\* n1 * ... * nk for the value lists of a grid, 1 for the empty grid
RECURSIVE GridSize(_)
GridSize(grid) ==
    IF grid = <<>> THEN 1 ELSE Len(grid[1][2]) * GridSize(Tail(grid))

\* C6 (as claimed): when the run has ended, the stored status is completed or failed.
C6_EndsTerminal ==
    pc = "done" => project.status \in Terminal

\* the steps taken so far: two per call made, one more once the position is past
\* the steps that can pass without a call
SilentSteps == {"idle", "queued", "execute_hyperparameter_search", "update_project_results"}

Clock == 2 * Len(calls) + (IF pc \in SilentSteps THEN 0 ELSE 1)

\* the calls one run can make: create_project, every call of the flow but the
\* search, one cross-validation per candidate, the two failure writes
MaxCalls ==
    Len(run_xgboost_training_flow) + GridSize(get_param_grid(request)) + 2

\* C6 (amended): every run terminates (a run that has not ended can always take a
\* step, every step advances the clock, and the clock is bounded by the number of
\* calls a run makes), and when it has ended the stored status is completed or
\* failed unless the store refused both failure writes (the one of
\* cleanup_failed_project and the one of run_training_task); then it is left at the
\* last status stored.
C6_TerminatesTerminalOrStoreDown ==
    /\ [](pc \notin {"done", "rejected"} => ENABLED Next)
    /\ [][Clock' > Clock]_vars
    /\ [](Len(calls) <= MaxCalls)
    /\ [](pc = "done"
            => \/ project.status \in Terminal
               \/ /\ caught = "StoreError:cleanup_failed_project"
                  /\ task_error = "StoreError:status_failed")

C6_Witness ==
    /\ pc = "done"
    /\ project.status = "failed"
    /\ caught = "StoreError:cleanup_failed_project"
    /\ errStep = "preprocess_data"

InfoSaves ==
    {"update_project_dataset_info", "update_project_preprocessing",
     "update_project_tuning_results"}

\* C7: a raising store call that saves dataset, preprocessing or tuning info does
\* not abort the run: its error never reaches the except clause of the orchestrator.
C7_StoreFailureDoesNotAbort ==
    pc = "except" => errStep \notin InfoSaves

StoreCalls ==
    InfoSaves \cup {"update_project_results", "cleanup_failed_project"}

\* C8: each store call is made at most once and at its fixed point: dataset and
\* preprocessing info after preprocessing and before the first cross-validation,
\* tuning info after the last cross-validation and before the final fit, the final
\* result after the evaluation and after the model file was written, the failure
\* record only when an error was raised.
C8_StoreCallPoints ==
    /\ \A c \in StoreCalls : Count(calls, c) <= 1
    /\ \A c \in {"update_project_dataset_info", "update_project_preprocessing"} :
            c \in Range(calls)
                => /\ Before("preprocess_data", c)
                   /\ Before(c, "run_cross_validation")
                   /\ Before(c, "execute_hyperparameter_search")
    /\ project.dataset_info => "update_project_dataset_info" \in Range(calls)
    /\ project.preprocessing => "update_project_preprocessing" \in Range(calls)
    /\ "update_project_tuning_results" \in Range(calls)
            => /\ pc # "cv_loop"
               /\ \A i \in 1..Len(calls) :
                    calls[i] = "run_cross_validation"
                        => i < FirstIndex(calls, "update_project_tuning_results")
               /\ pc \notin {"except", "task_except", "done"}
                    => /\ idx = Len(param_combinations)
                       /\ Len(evaluated) = Len(param_combinations)
               /\ Before("update_project_tuning_results", "fit_xgb_model")
    /\ project.tuning.saved => "update_project_tuning_results" \in Range(calls)
    /\ "update_project_results" \in Range(calls)
            => /\ Before("predict", "update_project_results")
               /\ Before("metrics", "update_project_results")
               /\ Before("write_model_file", "update_project_results")
               /\ model_file
    /\ project.results.saved => "update_project_results" \in Range(calls)
    /\ "cleanup_failed_project" \in Range(calls) => exc # "none"
    /\ project.error # NoError => "cleanup_failed_project" \in Range(calls)

C8_Witness ==
    /\ project.dataset_info
    /\ project.preprocessing
    /\ project.tuning.saved
    /\ "write_model_file" \in Range(calls)
    /\ project.error # NoError

\* the keys of the requested grid that are not tunable parameters
NonTunableKeys(req) ==
    IF req.custom_param_grid.is_none THEN {}
    ELSE DictKeys(req.custom_param_grid.items) \ TUNABLE_PARAMS

\* C9: a request whose grid names "objective" or another non-tunable key is
\* rejected by validation, before any call is made for it.
C9_NonTunableGridRejected ==
    (pc # "idle" /\ NonTunableKeys(request) # {})
        => /\ pc = "rejected"
           /\ Range(calls) \cap (Range(run_xgboost_training_flow) \cup {"run_cross_validation"}) = {}

\* execute_hyperparameter_search has returned
SearchReturned ==
    /\ pc \notin {"idle", "rejected", "queued", "cv_loop", "execute_hyperparameter_search"}
    /\ "status_tuning" \in Range(calls)
    /\ errStep \notin {"status_tuning", "execute_hyperparameter_search"}

EachOnce ==
    /\ \A i \in 1..Len(evaluated) : evaluated[i].index = i
    /\ Cardinality({evaluated[i].params : i \in 1..Len(evaluated)}) = Len(evaluated)

\* C10 (as claimed): a finished search has cross-validated n1 * ... * nk candidates
\* of the requested grid, each once, and exactly the base parameters alone when the
\* requested grid is empty.
C10_RequestedGridSize ==
    (SearchReturned /\ ~request.custom_param_grid.is_none)
        => /\ Len(evaluated) = GridSize(request.custom_param_grid.items)
           /\ EachOnce
           /\ request.custom_param_grid.items = <<>>
                => evaluated[1].params = << <<"objective", request.objective>> >>

\* C10 (amended): a finished search has cross-validated n1 * ... * nk candidates,
\* each once, of the requested grid when that grid is non-empty, and of the default
\* grid (3 * 2 * 3 * 1 * 1 = 18 candidates) when the requested grid is empty or absent.
C10_EffectiveGridSize ==
    SearchReturned
        => /\ EachOnce
           /\ IF request.custom_param_grid.is_none \/ request.custom_param_grid.items = <<>>
              THEN /\ Len(evaluated) = GridSize(DEFAULT_PARAM_GRID)
                   /\ Len(evaluated) = 18
              ELSE Len(evaluated) = GridSize(request.custom_param_grid.items)

C10_Witness ==
    /\ SearchReturned
    /\ ~request.custom_param_grid.is_none
    /\ Len(request.custom_param_grid.items) = 2
    /\ Len(evaluated) = 4

\* C11: the running best is the first candidate among those with the highest mean
\* observed so far, with that candidate's parameters, score, deviation and round
\* count: a later candidate with an equal score overwrites none of them.
C11_FirstBestKept ==
    /\ leader.index = 0 => best = InitialBest
    /\ leader.index > 0
        => best = [score |-> leader.mean,
                   std |-> leader.std,
                   params |-> param_combinations[leader.index],
                   n_estimators |-> leader.rounds]

C11_Witness ==
    /\ pc = "fit_xgb_model"
    /\ leader.tied
    /\ leader.index = 1
    /\ Len(param_combinations) >= 2
    /\ best.params = param_combinations[1]

\* the position of value v in a value list
PositionIn(list, v) == CHOOSE i \in 1..Len(list) : list[i] = v

\* candidate a comes before candidate b in product order: at the first key where
\* they differ, a holds the earlier value of that key's list
ProductOrder(grid, a, b) ==
    \E i \in 1..Len(grid) :
        /\ \A h \in 1..(i - 1) : a[h][2] = b[h][2]
        /\ PositionIn(grid[i][2], a[i][2]) < PositionIn(grid[i][2], b[i][2])

\* C12: build_param_grid returns n1 * ... * nk candidates; each maps every key of
\* the grid, in grid key order, to one value of that key's list; the candidates come
\* in product order with the right-most key varying fastest, so each element of the
\* product appears exactly once; the empty grid gives the single empty candidate.
C12_ProductOrder ==
    pc = "built"
        => LET grid == request.custom_param_grid.items
               c == param_combinations
           IN  /\ Len(c) = GridSize(grid)
               /\ \A j \in 1..Len(c) :
                    /\ Len(c[j]) = Len(grid)
                    /\ \A i \in 1..Len(grid) :
                        /\ c[j][i][1] = grid[i][1]
                        /\ c[j][i][2] \in Range(grid[i][2])
               /\ \A j, k \in 1..Len(c) : j < k => ProductOrder(grid, c[j], c[k])
               /\ grid = <<>> => c = << <<>> >>

C12_Witness ==
    /\ pc = "built"
    /\ Len(request.custom_param_grid.items) = 2
    /\ Len(param_combinations) = 4
    /\ param_combinations[1][1] = param_combinations[2][1]
    /\ param_combinations[1][2] # param_combinations[2][2]

\* the candidates whose cross-validation has returned
Completed == {i \in 1..Len(evaluated) : ~evaluated[i].raised}

\* C13: a progress line is written exactly after the 5th, 10th, 15th, ... candidate
\* whose cross-validation returned, floor(N / 5) lines for N candidates; each holds
\* the number done, the total and the best score over the candidates done so far;
\* and the lines steer nothing: with or without a line the candidates
\* cross-validated are those of the grid, in order, and the running best is the
\* first candidate with the highest mean.
C13_ProgressEveryFifth ==
    /\ [](/\ Len(progress) = Cardinality(Completed) \div 5
          /\ \A k \in 1..Len(progress) :
                /\ progress[k].done = 5 * k
                /\ progress[k].total = GridSize(get_param_grid(request))
                /\ k > 1 => progress[k].best_score >= progress[k - 1].best_score)
    /\ [][Len(progress') > Len(progress)
            => /\ Len(progress') = Len(progress) + 1
               /\ progress'[Len(progress')].done = idx'
               /\ progress'[Len(progress')].best_score = leader'.mean
               /\ best'.score = leader'.mean]_vars
    /\ [](evaluated # <<>>
            => LET grid == build_param_grid(get_param_grid(request))
               IN  \A i \in 1..Len(evaluated) :
                    /\ evaluated[i].index = i
                    /\ evaluated[i].params = MergeParams(request.objective, grid[i]))

C13_Witness ==
    /\ SearchReturned
    /\ Len(progress) = 3
    /\ progress[3].done = 15
    /\ progress[3].best_score > progress[1].best_score

\* a cross-validation of the run has raised
CvFailed == \E i \in 1..Len(evaluated) : evaluated[i].raised

AfterSearch ==
    {"update_project_tuning_results", "status_finalizing", "fit_xgb_model", "predict",
     "metrics", "write_model_file", "update_project_results"}

\* what a raising cross-validation does to the run, up to the final status: the
\* candidate that raised is the last one cross-validated and was cross-validated
\* once, the error is in flight or was handed to the caller, the only calls after it
\* are the two failure writes, and nothing of the search is used
CvFailureAborts ==
    /\ \A i \in 1..Len(evaluated) :
        /\ evaluated[i].index = i
        /\ evaluated[i].raised
            => /\ i = Len(evaluated)
               /\ errStep = "execute_hyperparameter_search"
               /\ exc = "XGBoostError: cv"
               /\ pc \in {"except", "task_except", "done"}
    /\ CvFailed
        => /\ \A i \in 1..Len(calls) :
                calls[i] = "run_cross_validation"
                    => \A j \in (i + 1)..Len(calls) :
                          calls[j] \in {"run_cross_validation", "cleanup_failed_project",
                                        "status_failed"}
           /\ Count(calls, "run_cross_validation") = Len(evaluated)
           /\ Range(calls) \cap AfterSearch = {}
           /\ best = InitialBest
           /\ ~project.tuning.saved
           /\ ~project.results.saved
           /\ ~model_file

\* C14 (as claimed): a raising cross-validation fails the whole run, and the run
\* ends with the stored status failed.
C14_CvFailureEndsFailed ==
    /\ CvFailureAborts
    /\ (CvFailed /\ pc = "done") => project.status = "failed"

\* C14 (amended): a raising cross-validation fails the whole run: the candidate is
\* not cross-validated again, no later candidate is, no tuning info, final fit or
\* final result follows; the run ends with the stored status failed unless the
\* store refused both failure writes, and then with the tuning status.
C14_CvFailureAbortsRun ==
    /\ CvFailureAborts
    /\ (CvFailed /\ pc = "done")
        => \/ project.status = "failed"
           \/ /\ caught = "StoreError:cleanup_failed_project"
              /\ task_error = "StoreError:status_failed"
              /\ project.status = TuningStatus

C14_Witness ==
    /\ pc = "done"
    /\ CvFailed
    /\ Len(evaluated) >= 2
    /\ Len(evaluated) < GridSize(get_param_grid(request))
    /\ project.status = "failed"

\* the rows of a dataset
Rows(data) == Len(data[1].cells)

\* the target of a dataset has a value in every row
TargetComplete(data) ==
    \A r \in 1..Rows(data) : ~isnull(Column(data, TargetColumn).cells[r])

\* preprocess_data was called without a pipeline on a dataset with a complete target
FitTransformCalled == prepared.called /\ pc \in {"apply", "raised", "applied"} /\ TargetComplete(df)

\* C15: fit-transform succeeds on every dataset and every selection of its feature
\* columns, and returns one numeric column per selected column, with the rows of
\* the input and a number in every cell.
C15_OneNumericColumnPerFeature ==
    FitTransformCalled
        => /\ prepared.result.error = ""
           /\ Len(prepared.result.X) = Len(prepared.feature_columns)
           /\ {prepared.result.X[i].name : i \in 1..Len(prepared.result.X)}
                = Range(prepared.feature_columns)
           /\ \A i \in 1..Len(prepared.result.X) :
                /\ Len(prepared.result.X[i].cells) = Rows(df)
                /\ \A r \in 1..Rows(df) : prepared.result.X[i].cells[r].kind = "num"

\* the group of a column by its native representation: a number is numeric,
\* anything else categorical
NativeGroup(col) == IF col.dtype \in NumberDTypes THEN "numeric" ELSE "categorical"

\* C16: every requested feature column is in exactly one of the numeric and the
\* categorical group, a number column in the numeric one and any other column in
\* the categorical one; the datetime list holds exactly the date/time columns, not
\* the columns of date strings.
C16_EveryColumnClassified ==
    (prepared.called /\ pc \in {"apply", "raised", "applied"})
        => LET X == [i \in 1..Len(prepared.feature_columns) |->
                        Column(df, prepared.feature_columns[i])]
               types == detect_column_types(X)
           IN  \A i \in 1..Len(X) :
                /\ X[i].name \in Range(types.numeric_columns)
                    <=> NativeGroup(X[i]) = "numeric"
                /\ X[i].name \in Range(types.categorical_columns)
                    <=> NativeGroup(X[i]) = "categorical"
                /\ X[i].name \in Range(types.datetime_columns)
                    <=> X[i].dtype \in DatetimeDTypes


\* fit-transform returned
FitTransformReturned ==
    prepared.called /\ prepared.result.error = "" /\ pc \in {"apply", "applied"}

\* the value a dict holds for a key
ValueAt(d, k) == d[CHOOSE i \in 1..Len(d) : d[i][1] = k][2]

\* the strings the encoder of a categorical column is given: the column after the
\* datetime step, with the "missing" token in its empty cells
EncoderInput(data, name) ==
    LET col == Column(DatetimeToString(<<Column(data, name)>>), name)
    IN  [r \in 1..Len(col.cells) |->
            IF isnull(col.cells[r]) THEN CategoricalFill ELSE col.cells[r].s]

\* the output column of fit-transform called name
OutputColumn(name) == Column(prepared.result.X, name)

\* the categories the fitted pipeline holds for the i-th categorical column
StoredCategories(i) == prepared.result.pipeline.categories[i]

\* the row of the first occurrence of a value
FirstRow(strings, s) == CHOOSE r \in 1..Len(strings) :
    strings[r] = s /\ \A q \in 1..(r - 1) : strings[q] # s

ApplyReturned == pc = "applied" /\ applied.called /\ applied.result.error = ""

\* the rows of the fitted dataset whose encoder input in a column is a given string
FitRows(name, s) == {r \in 1..Rows(df) : EncoderInput(df, name)[r] = s}

\* C18: apply mode uses the stored transform without refitting: a categorical value
\* present at fit time gets the code it got at fit time, a value never seen at fit
\* time gets the unknown code -1, and the pipeline and its category mapping are
\* the same after the call as before it.
C18_ApplyUsesStoredCodes ==
    ApplyReturned
        => LET cat == prepared.artifacts.categorical_columns
           IN  /\ applied.result.pipeline = prepared.result.pipeline
               /\ \A i \in 1..Len(cat) :
                    /\ ValueAt(applied.artifacts.encoders, cat[i])
                        = ValueAt(prepared.artifacts.encoders, cat[i])
                    /\ \A q \in 1..Rows(probe) :
                        LET s == EncoderInput(probe, cat[i])[q]
                            code == Column(applied.result.X, cat[i]).cells[q]
                        IN  /\ \A r \in FitRows(cat[i], s) :
                                code = OutputColumn(cat[i]).cells[r]
                            /\ FitRows(cat[i], s) = {} => code = Num(-1)

\* one call applied a pipeline to a value it was fitted on and to one it was not
C18_Witness ==
    /\ ApplyReturned
    /\ prepared.artifacts.categorical_columns = <<ColumnNames[1], ColumnNames[2]>>
    /\ FitRows(ColumnNames[1], EncoderInput(probe, ColumnNames[1])[1]) = {}
    /\ Column(applied.result.X, ColumnNames[1]).cells[1] = Num(-1)
    /\ FitRows(ColumnNames[2], EncoderInput(probe, ColumnNames[2])[1]) # {}
    /\ Column(applied.result.X, ColumnNames[2]).cells[1] = Num(0)

\* the target column of the dataset given to fit-transform
Target == Column(df, TargetColumn)

\* the labels of the target smaller than a label
SmallerLabels(s) ==
    {t \in {Target.cells[r].s : r \in 1..Rows(df)} : StringRank(t) < StringRank(s)}

MissingTargetError == "ValueError: Target column contains missing values"

\* the dataset has the requested columns and a target with an empty cell
TargetCellMissing(data) ==
    /\ data # NoDataset
    /\ (Range(RequestedColumns(request)) \cup {TargetColumn}) \subseteq ColumnNamesOf(data)
    /\ \E r \in 1..Rows(data) : isnull(Column(data, TargetColumn).cells[r])

\* the calls of the phases after preprocessing
LaterPhaseCalls ==
    {c \in Range(run_xgboost_training_flow) \cup {"run_cross_validation"} :
        c \notin {"status_loading", "read_csv_file", "preprocess_data"}}

\* preprocessing a dataset with an empty target cell raises the missing-target error
\* and leaves neither a fitted pipeline nor artifacts
MissingTargetRaises ==
    (pc = "preprocess_data" /\ TargetCellMissing(df))
        => /\ exc' = MissingTargetError
           /\ errStep' = "preprocess_data"
           /\ pc' = "except"
           /\ ~prepared'.called
           /\ prepared'.result.pipeline = NoPipeline
           /\ preprocess(df, RequestedColumns(request), TargetColumn, NoPipeline).pipeline
                = NoPipeline

IndexOf(frame) == [k \in 1..Len(frame) |-> frame[k].index]

SplitReturned == pc = "returned" /\ args.function = "split_train_test" /\ returned.error = ""

\* C21: after a successful split the train and test index sets are disjoint, their
\* union is the index set of the dataset, |train| + |test| is its row count, and the
\* features and the target are split on the same indices, each returned row being
\* the row of the dataset with that index.
C21_SplitPartitions ==
    SplitReturned
        => LET train == IndexOf(returned.X_train)
               test == IndexOf(returned.X_test)
           IN  /\ Range(train) \cap Range(test) = {}
               /\ Range(train) \cup Range(test) = Range(IndexOf(args.X))
               /\ Len(train) + Len(test) = Len(args.X)
               /\ IndexOf(returned.y_train) = train
               /\ IndexOf(returned.y_test) = test
               /\ Range(returned.X_train) \cup Range(returned.X_test) = Range(args.X)
               /\ Range(returned.y_train) \cup Range(returned.y_test) = Range(args.y)

\* four rows, two of each class, were split in halves with a shuffled train part
C21_Witness ==
    /\ SplitReturned
    /\ Len(args.X) = 4
    /\ Len(returned.X_train) = 2
    /\ Len(returned.X_test) = 2
    /\ returned.y_train[1].index > returned.y_train[2].index

ImportanceReturned == pc = "returned" /\ args.function = "extract_feature_importance"

\* the first importance type, in the order gain, weight, cover, with a non-empty
\* answer; the last one when all are empty
FirstNonEmpty ==
    IF args.model.gain # <<>> THEN "gain"
    ELSE IF args.model.weight # <<>> THEN "weight"
    ELSE "cover"

\* C22: the result has exactly one entry per requested feature name; the values come
\* from the first non-empty source in the order gain, weight, cover, a later source
\* being asked only when every earlier one was empty; a feature with a non-zero
\* entry under its own name gets it, otherwise it gets the entry of its positional
\* key f<i>, and 0.0 when the source has neither.
C22_ImportancePerFeature ==
    ImportanceReturned
        => LET source == args.model[FirstNonEmpty]
               names == args.feature_names
               result == returned.feature_importance
           IN  /\ DictKeys(result) = Range(names)
               /\ Len(result) = Cardinality(Range(names))
               /\ Range(returned.asked) =
                    {ImportanceTypes[i] : i \in 1..Len(returned.asked)}
               /\ returned.asked[Len(returned.asked)] = FirstNonEmpty
               /\ \A i \in 1..(Len(returned.asked) - 1) : args.model[returned.asked[i]] = <<>>
               /\ \A n \in Range(names) :
                    LET i == CHOOSE j \in 1..Len(names) :
                                names[j] = n /\ \A q \in 1..(j - 1) : names[q] # n
                        own == {e \in Range(source) : e[1] = n /\ e[2] # 0}
                        positional == {e \in Range(source) : e[1] = "f" \o ToString(i - 1)}
                        value == DictGet(result, n, -1)
                    IN  /\ own # {} => \E e \in own : value = e[2]
                        /\ (own = {} /\ positional # {}) => \E e \in positional : value = e[2]
                        /\ (own = {} /\ positional = {}) => value = 0

\* gain was empty and weight was used: one feature found under its name, the other
\* under its positional key
C22_Witness ==
    /\ ImportanceReturned
    /\ args.feature_names = <<"a", "b">>
    /\ returned.asked = <<"gain", "weight">>
    /\ args.model.weight = << <<"a", 21>>, <<"f1", 23>> >>
    /\ returned.feature_importance = << <<"a", 21>>, <<"b", 23>> >>

LiftReturned == pc = "returned" /\ args.function = "compute_lift_chart_data"

RECURSIVE TotalCount(_)
TotalCount(lift_data) ==
    IF lift_data = <<>> THEN 0 ELSE Head(lift_data).count + TotalCount(Tail(lift_data))

\* the lift chart has at most n_bins bins, each with a positive count, numbered in
\* strictly increasing order, and together they hold no more rows than were held out
LiftChartShape ==
    LET lift_data == returned.lift_data
    IN  /\ Len(lift_data) <= args.n_bins
        /\ \A i \in 1..Len(lift_data) :
            /\ lift_data[i].count > 0
            /\ lift_data[i].bin \in 1..args.n_bins
            /\ i > 1 => lift_data[i - 1].bin < lift_data[i].bin
        /\ TotalCount(lift_data) <= Len(args.y_true)

\* C23: for every non-empty held-out set the lift chart has at most n_bins bins, every
\* bin has a positive count, the bin numbers are strictly increasing, and the sum of
\* the counts is positive and at most the number of held-out rows.
C23_LiftChartCounts ==
    LiftReturned => (LiftChartShape /\ TotalCount(returned.lift_data) > 0)

ValidateReturned == pc = "returned" /\ args.function = "validate_param_grid"

\* the keys of the grid that are not tunable, or hold no list, or an empty one
OffendingKeys ==
    {i \in 1..Len(args.param_grid) :
        \/ ~is_tunable(args.param_grid[i][1])
        \/ ~args.param_grid[i][2].is_list
        \/ args.param_grid[i][2].items = <<>>}

\* the listed values, under the other keys, that validate_param_value rejects
OffendingValues ==
    {<<i, j>> \in (1..Len(args.param_grid)) \X (1..MaxListed + 1) :
        /\ i \notin OffendingKeys
        /\ j <= Len(args.param_grid[i][2].items)
        /\ validate_param_value(args.param_grid[i][1], args.param_grid[i][2].items[j])
            # NoParamError}

\* C24: validate_param_grid reports valid exactly when every key is a tunable
\* parameter or an alias of one, holds a non-empty list, and every listed value passes
\* validate_param_value; otherwise there is an error for each offending key and each
\* offending value; the flag is true exactly when the error list is empty; and the
\* default grid is valid.
C24_GridValidation ==
    ValidateReturned
        => /\ returned.is_valid <=> (OffendingKeys = {} /\ OffendingValues = {})
           /\ returned.is_valid <=> returned.errors = <<>>
           /\ Len(returned.errors) >= Cardinality(OffendingKeys) + Cardinality(OffendingValues)
           /\ \A i \in OffendingKeys :
                \E e \in Range(returned.errors) : e.param_name = args.param_grid[i][1]
           /\ \A p \in OffendingValues :
                \E e \in Range(returned.errors) :
                    /\ e.param_name = args.param_grid[p[1]][1]
                    /\ e.value = args.param_grid[p[1]][2].items[p[2]]
           /\ args.param_grid = TypedDefaultGrid => returned.is_valid

\* a grid with a key that is not tunable and a rejected value under a tunable key
\* was reported with both errors
C24_Witness ==
    /\ ValidateReturned
    /\ Cardinality(OffendingKeys) = 1
    /\ Cardinality(OffendingValues) = 2
    /\ Len(returned.errors) = 3
    /\ ~returned.is_valid


\* the final fit returned and phase 4 has not failed since
FinalFitDone == "model" \in DOMAIN training_result

\* the cross-validation call made for candidate i
CvCallOf(i) == evaluated[CHOOSE k \in 1..Len(evaluated) : evaluated[k].index = i]

\* C25: the final model is fit with the configuration the search selected: its
\* parameters are the objective merged with the best candidate's values, the tuned
\* value winning where the candidate has the key too, and are the parameters of that
\* candidate's cross-validation; its rounds, and the score and standard deviation
\* carried with them, are those of that candidate; the candidates are still the
\* product of the request's grid; and the fit has no validation set and no early
\* stopping.
C25_FinalFitUsesSelected ==
    (FinalFitDone /\ leader.index > 0)
        => LET winner == param_combinations[leader.index]
               model == training_result.model
           IN  /\ param_combinations = build_param_grid(get_param_grid(request))
               /\ DictKeys(model.params) = {"objective"} \cup DictKeys(winner)
               /\ \A k \in DictKeys(winner) : ValueAt(model.params, k) = ValueAt(winner, k)
               /\ ~DictHas(winner, "objective")
                    => ValueAt(model.params, "objective") = request.objective
               /\ model.params = CvCallOf(leader.index).params
               /\ model.num_rounds = leader.rounds
               /\ training_result.best_n_estimators = leader.rounds
               /\ training_result.best_params = winner
               /\ training_result.cv_auc = leader.mean
               /\ best.std = leader.std
               /\ model.evals = None
               /\ model.early_stopping_rounds = None

\* a final fit for the second of several candidates, whose rounds differ from the
\* first candidate's
C25_Witness ==
    /\ FinalFitDone
    /\ leader.index = 2
    /\ Len(param_combinations) >= 2
    /\ training_result.model.num_rounds = 1
    /\ \E k \in 1..Len(evaluated) : evaluated[k].index = 1


\* the run is over, write_model_file returned (so every call before it did) and no
\* store call was refused
EverythingSucceeded ==
    /\ pc = "done"
    /\ model_file
    /\ errStep # "update_project_results"
    /\ caught # StoreError("cleanup_failed_project")
    /\ task_error = "none"

\* C26: when the load, the preprocessing, the split, every cross-validation, the
\* final fit, the evaluation, the model write and every store call succeed, the run
\* ends with status completed, the result with the best candidate's standard
\* deviation is saved, and the orchestrator returns without raising.
C26_SuccessEndsCompleted ==
    EverythingSucceeded
        => /\ project.status = CompletedStatus
           /\ project.results.saved
           /\ project.results.cv_auc_std = leader.std
           /\ exc = "none"


\* the store update that sets the status to completed
Completes == project'.status = CompletedStatus /\ project.status # CompletedStatus

\* C28: whenever the stored status is completed the final result is in the same
\* document and the model file has been written; the status becomes completed only
\* in the update of update_project_results, which writes the result in the same
\* update, and only after write_model_file returned.
C28_CompletedHasResultAndModel ==
    /\ [](project.status = CompletedStatus => (project.results.saved /\ model_file))
    /\ [][Completes
            => /\ pc = "update_project_results"
               /\ calls' = Append(calls, "update_project_results")
               /\ \E k \in 1..Len(calls) : calls[k] = "write_model_file"
               /\ model_file
               /\ ~project.results.saved
               /\ project'.results =
                    [saved |-> TRUE,
                     cv_auc |-> training_result.cv_auc,
                     cv_auc_std |-> training_result.cv_auc_std,
                     model_params |-> training_result.best_params,
                     n_estimators |-> training_result.best_n_estimators]]_vars

\* the document of a completed project, after its model was written
C28_Witness ==
    /\ project.status = CompletedStatus
    /\ project.results.saved
    /\ project.results.n_estimators = MaxRounds
    /\ model_file
    /\ pc = "done"


\* C27: in fit-transform mode two cells of a categorical column get the same code
\* exactly when they hold the same value, an absent cell being a value of its own, so
\* a column has as many distinct codes as distinct values.
C27_CodesSeparateValues ==
    FitTransformReturned
        => \A name \in Range(prepared.artifacts.categorical_columns) :
            LET values == Column(df, name).cells
                codes == OutputColumn(name).cells
            IN  /\ \A r1, r2 \in 1..Len(values) :
                    codes[r1] = codes[r2] <=> values[r1] = values[r2]
                /\ Cardinality(Range(codes)) = Cardinality(Range(values))


\* the callers get_client has returned to
Served == {t \in Callers : callers[t].pc = "returned"}

\* C29: under any interleaving of concurrent get_client calls at most one client is
\* constructed, every caller receives that same client, and a client is returned
\* only after its ping succeeded.
C29_OneTestedClient ==
    /\ Len(made) <= 1
    /\ \A t, u \in Served : callers[t].result = callers[u].result
    /\ \A t \in Served : made[callers[t].result]


\* the threads that have the log file of their record open
Writing == {t \in Emitters : emits[t].pc \in {"json_dump", "write", "close"}}

\* the lines of a log file: its text cut after every newline
Lines(text) == [k \in 1..(Len(text) \div 2) |-> <<text[2 * k - 1], text[2 * k]>>]

\* a line holding the whole entry of one record and the newline after it
CompleteLine(line, name) ==
    /\ line[1].part = "entry"
    /\ line[2].part = "newline"
    /\ line[1].record = line[2].record
    /\ line[1].project_id = name

\* the text of thread t's record in a file
TextOf(t, name) == {i \in 1..Len(files[name]) : files[name][i].record = t}

====
